---- MODULE Spec2Model ----
(***************************************************************************)
(* Verification model of the agent runtime (Wick-Lim/helper).              *)
(*                                                                         *)
(*   Spec      one agent run: the async generator runAgent/agentLoop of    *)
(*             src/agent/agent.ts, driven by an arbitrary LLM, arbitrary   *)
(*             tool results, a cancel signal and the global shutdown flag, *)
(*             with a consumer that drains the stream.                     *)
(*   SpecChat  the HTTP chat handler handleChat of src/api/routes.ts       *)
(*             serving several concurrently arriving requests.             *)
(*   SpecBucket  one RateLimiter of src/core/ratelimit.ts used by several  *)
(*             callers whose acquire / tryAcquire calls overlap.           *)
(*   SpecDetector  one StuckDetector of src/agent/stuck-detector.ts that   *)
(*             is constructed, fed records, checked and reset.             *)
(*   SpecDriver  the consciousness driver startConsciousnessLoop of        *)
(*             src/agent/consciousness.ts with the leases of interruptLoop *)
(*             and the timers behind them.                                 *)
(*   SpecShutdown  the shutdown hooks of src/core/signals.ts, registered   *)
(*             by main (src/index.ts) and startServer (src/api/server.ts). *)
(*   SpecShutdownFair  SpecShutdown with hooks that settle.                *)
(*   SpecSSE   the server-sent-event streams of src/api/routes.ts.         *)
(*   SpecExecutor  one call of executeToolCalls with the tool registry.    *)
(*   SpecConfig  the configuration store of src/db/config.ts.              *)
(*   SpecLedger  the hourly debt of src/db/survival.ts.                    *)
(*   SpecKnowledge  saving and pruning knowledge (src/db/growth.ts).       *)
(***************************************************************************)
EXTENDS Integers, Sequences, FiniteSets, TLC

(***************************************************************************)
(* Bounds of the model.                                                    *)
(***************************************************************************)
\* largest number of function calls in one LLM response
MaxBatch == 2
\* largest value of options.maxIterations that is tried
MaxIterOption == 4
\* number of chat requests that arrive at the HTTP server
NumRequests == 4
\* number of callers that share one RateLimiter
NumCallers == 3
\* last value of the millisecond clock Date.now()
MaxClock == 2
\* largest number of calls recorded in one StuckDetector
MaxRecords == 10
\* number of calls of startConsciousnessLoop
NumStarts == 2
\* number of interrupt leases whose timers are pending at one time
NumLeases == 2
\* last value, in seconds, of the clock the driver's timers run on
MaxTime == 6
\* number of termination signals the process receives
MaxSignals == 2
\* number of clients that subscribe to an event stream
NumSubscribers == 2
\* largest number of messages published on one event stream
MaxMessages == 2
\* largest number of rows in the survival ledger
MaxLedger == 4
\* last value of the wall clock, in half hours
MaxHalfHours == 6
\* number of calls of saveKnowledge that may be in progress together
NumSavers == 2
\* largest id handed out by table knowledge
MaxKnowledgeId == 4
\* GROWTH.KNOWLEDGE_MAX_ENTRIES (10000 in the program), scaled down
KNOWLEDGE_MAX_ENTRIES == 2
\* number of cycles the consciousness loop begins
MaxCycles == 6
\* number of agent runs that complete in one chat session
MaxRuns == 52

(***************************************************************************)
(* Program constants.                                                      *)
(***************************************************************************)
MAX_ITERATIONS_MIN == 1
MAX_ITERATIONS_MAX == 1000
SAME_CALL_THRESHOLD == 3
SINGLE_TOOL_THRESHOLD == 10
MAX_CONCURRENT_CHATS == 3
\* seconds: the lease handleChat takes, and the driver's three sleeps
CHAT_LEASE == 60
SLEEP_INTERRUPTED == 5
SLEEP_CYCLE == 2
SLEEP_ERROR == 10
\* GROWTH.HOURLY_DEBT, in the ledger's unit of account here: half of the
\* hourly debt, so that the debt of a half hour is 1
HOURLY_DEBT == 2
\* executeToolCalls: const maxRetries = 2
maxRetries == 2
\* startConsciousnessLoop: const MAX_INVESTIGATION_CYCLES = 2
MAX_INVESTIGATION_CYCLES == 2

VARIABLES
  \* ---- one agent run (src/agent/agent.ts) ----
  pc,                \* position of the generator agentLoop
  maxIterations,     \* options.maxIterations ?? config max_iterations
  taskId,            \* id returned by createTask (0 before)
  tasks,             \* table tasks: sequence of rows, index = id
  conversations,     \* table conversations of the session, creation order
  toolCalls,         \* table tool_calls, append-only
  messages,          \* the run's local message list
  detector,          \* the run's StuckDetector
  response,          \* the ChatResponse being processed
  functionResponses, \* result of executeToolCalls for the current batch
  idx,               \* loop index of the two for-loops over the batch
  events,            \* every event yielded so far, in order
  aborted,           \* options.signal.aborted
  isShuttingDown,    \* src/core/signals.ts isShuttingDown
  err,               \* the exception that was raised ("none" if none)
  thrown,            \* an exception left the generator to its consumer
  repertoire,        \* the function calls the LLM of this run asks for
  llmCalls,          \* number of llm.chat calls issued
  terminateVerdict,  \* detector.check() has returned shouldTerminate
  finalAnswer,       \* the LLM has answered without function calls
  \* ---- HTTP chat handler (src/api/routes.ts) ----
  activeChatCount,   \* module variable activeChatCount
  req,               \* per request: position in handleChat and its outcome
  \* ---- token bucket (src/core/ratelimit.ts) ----
  limiter,           \* the RateLimiter object: options, tokens, lastRefill
  clock,             \* Date.now()
  rlCall,            \* per caller: its acquire / tryAcquire call
  grantedTokens,     \* sum of the tokens handed to callers
  refilledTokens,    \* sum of the tokens added by refill()
  \* ---- a StuckDetector on its own (src/agent/stuck-detector.ts) ----
  sd,                \* the StuckDetector object
  sdArg,             \* <<constructor argument>>, <<>> before construction
  checked,           \* <<value returned by the last check()>>, <<>> if none
  \* ---- consciousness driver (src/agent/consciousness.ts) ----
  isLoopRunning,     \* module variable isLoopRunning
  isInterrupted,     \* module variable isInterrupted
  loopCall,          \* per call of startConsciousnessLoop: position, wake time
  leases,            \* the pending timers of interruptLoop: end of each lease
  time,              \* the clock, in seconds
  \* ---- shutdown hooks (src/core/signals.ts, src/index.ts) ----
  handlers,          \* the array handlers
  mainPc,            \* position of main() among its onShutdown calls
  shutdownPc,        \* position of shutdown(): idle, awaiting, exited
  hookIdx,           \* index in handlers of the hook being awaited
  hookLog,           \* hooks invoked so far and how each one settled
  registered,        \* hooks in the order onShutdown was called
  signals,           \* the termination signals received so far
  \* ---- event streams (src/api/routes.ts) ----
  listeners,         \* per emitter: the listeners of its "sse" event
  sub,               \* per subscriber: its stream and what it was sent
  published,         \* per emitter: number of emit("sse", ..) calls
  \* ---- tool executor (src/agent/prompts.ts, src/tools/wait.ts) ----
  exec,              \* one call of executeToolCalls: its locals and results
  \* ---- configuration store (src/db/config.ts) ----
  config,            \* table config: key -> <<value>>, <<>> if no row
  cfgCall,           \* the last call of get / set / remove and how it ended
  written,           \* per key: <<value of the last set that succeeded>>
  \* ---- survival ledger (src/db/survival.ts) ----
  ledger,            \* table survival_ledger, in insertion order
  wallClock,         \* new Date(), in half hours
  \* ---- knowledge store (src/db/growth.ts) ----
  knowledge,         \* table knowledge: set of rows [id, importance]
  knowledge_vec,     \* table knowledge_vec: set of ids that have a vector
  saveCall,          \* per call of saveKnowledge: position and row id
  lastInsertRowid,   \* AUTOINCREMENT counter of table knowledge
  \* ---- one cycle of the consciousness loop (src/agent/consciousness.ts) ----
  investigationCount, \* let investigationCount of startConsciousnessLoop
  cyc,               \* the loop's position and the locals of its cycle
  autonomous,        \* rows of session 'autonomous-learning', by created_at
  \* ---- the conversation rows of one chat session (src/db/tasks.ts) ----
  sessionRows,       \* table conversations for the session, by created_at
  run                \* the session's agent run: position and loaded history

agentVars == <<pc, maxIterations, taskId, tasks, conversations, toolCalls,
               messages, detector, response, functionResponses, idx, events,
               aborted, isShuttingDown, err, thrown, repertoire, llmCalls,
               terminateVerdict, finalAnswer>>
chatVars == <<activeChatCount, req>>
bucketVars == <<limiter, clock, rlCall, grantedTokens, refilledTokens>>
detectorVars == <<sd, sdArg, checked>>
driverVars == <<isLoopRunning, isInterrupted, loopCall, leases, time>>
hookVars == <<handlers, mainPc, shutdownPc, hookIdx, hookLog, registered,
              signals>>
sseVars == <<listeners, sub, published>>
executorVars == <<exec>>
configVars == <<config, cfgCall, written>>
ledgerVars == <<ledger, wallClock>>
knowledgeVars == <<knowledge, knowledge_vec, saveCall, lastInsertRowid>>
cycleVars == <<investigationCount, cyc, autonomous>>
historyVars == <<sessionRows, run>>
\* the variables of an agent run without the shutdown flag
agentLocals == <<pc, maxIterations, taskId, tasks, conversations, toolCalls,
                 messages, detector, response, functionResponses, idx, events,
                 aborted, err, thrown, repertoire, llmCalls, terminateVerdict,
                 finalAnswer>>
vars == <<agentVars, chatVars, bucketVars, detectorVars, driverVars, hookVars,
          sseVars, executorVars, configVars, ledgerVars,
    knowledgeVars, cycleVars, historyVars>>
\* what a step of one component leaves alone
outsideAgent == <<chatVars, bucketVars, detectorVars, driverVars, hookVars, sseVars,
    executorVars, configVars, ledgerVars,
    knowledgeVars, cycleVars, historyVars>>
outsideChat == <<agentVars, bucketVars, detectorVars, driverVars, hookVars, sseVars,
    executorVars, configVars, ledgerVars,
    knowledgeVars, cycleVars, historyVars>>
outsideBucket == <<agentVars, chatVars, detectorVars, driverVars, hookVars, sseVars,
    executorVars, configVars, ledgerVars,
    knowledgeVars, cycleVars, historyVars>>
outsideDetector == <<agentVars, chatVars, bucketVars, driverVars, hookVars, sseVars,
    executorVars, configVars, ledgerVars,
    knowledgeVars, cycleVars, historyVars>>
outsideDriver == <<agentVars, chatVars, bucketVars, detectorVars, hookVars, sseVars,
    executorVars, configVars, ledgerVars,
    knowledgeVars, cycleVars, historyVars>>
outsideShutdown == <<agentLocals, chatVars, bucketVars, detectorVars, driverVars, sseVars,
    executorVars, configVars, ledgerVars,
    knowledgeVars, cycleVars, historyVars>>
outsideSSE == <<agentVars, chatVars, bucketVars, detectorVars, driverVars, hookVars,
    executorVars, configVars, ledgerVars,
    knowledgeVars, cycleVars, historyVars>>
outsideExecutor == <<agentVars, chatVars, bucketVars, detectorVars, hookVars, sseVars,
    configVars, ledgerVars, knowledgeVars, cycleVars, historyVars>>
outsideConfig == <<agentVars, chatVars, bucketVars, detectorVars, driverVars, hookVars,
    sseVars, executorVars, ledgerVars, knowledgeVars, cycleVars, historyVars>>
outsideLedger == <<agentVars, chatVars, bucketVars, detectorVars, driverVars, hookVars,
    sseVars, executorVars, configVars, knowledgeVars, cycleVars, historyVars>>
outsideKnowledge == <<agentVars, chatVars, bucketVars, detectorVars, driverVars, hookVars,
    sseVars, executorVars, configVars, ledgerVars, cycleVars, historyVars>>
outsideCycle == <<agentVars, chatVars, bucketVars, detectorVars, driverVars, hookVars,
    sseVars, executorVars, configVars, ledgerVars, knowledgeVars, historyVars>>
outsideHistory == <<agentVars, chatVars, bucketVars, detectorVars, driverVars, hookVars,
    sseVars, executorVars, configVars, ledgerVars, knowledgeVars, cycleVars>>

(***************************************************************************)
(* Helpers.                                                                *)
(***************************************************************************)
Min(a, b) == IF a < b THEN a ELSE b
Max(a, b) == IF a > b THEN a ELSE b
Last(s) == s[Len(s)]
\* Array.prototype.slice(-n)
SliceLast(s, n) == SubSeq(s, Max(1, Len(s) - n + 1), Len(s))

(***************************************************************************)
(* Inputs: what the LLM may ask for.                                       *)
(***************************************************************************)
Tools == {"shell", "file"}
\* args objects are sequences <<key, value>> (one property)
FunctionCalls ==
  { [name |-> "shell", args |-> <<"command", "ls">>],
    [name |-> "shell", args |-> <<"command", "pwd">>],
    [name |-> "file", args |-> <<"action", "list">>] }
\* the LLM of one run draws its function calls from one of these sets: two
\* tools, or one tool with two different inputs
Repertoires ==
  { c \in SUBSET FunctionCalls :
      /\ Cardinality(c) = 2
      /\ [name |-> "shell", args |-> <<"command", "ls">>] \in c }
Batches(calls) == UNION { [1..n -> calls] : n \in 0..MaxBatch }
\* ChatResponse values the LLM may return: a final answer with or without
\* thinking and text, or a bare batch of function calls
Responses(calls) ==
  { r \in [thinking : BOOLEAN, text : BOOLEAN, functionCalls : Batches(calls)] :
      Len(r.functionCalls) > 0 => (~r.thinking /\ ~r.text) }
NoResponse == [thinking |-> FALSE, text |-> FALSE, functionCalls |-> <<>>]
\* values of options.maxIterations handed to runAgent
MaxIterationsInputs == {0, MaxIterOption}

\* JSON.stringify of an args object with one property
JSONStringify(args) == "{\"" \o args[1] \o "\":\"" \o args[2] \o "\"}"

\* Bun.hash of the argument string: a deterministic fingerprint, used only
\* for equality
Hash(str) ==
  CASE str = "{\"command\":\"ls\"}"  -> 7301
    [] str = "{\"command\":\"pwd\"}" -> 1882
    [] str = "{\"action\":\"list\"}" -> 4460
    [] OTHER -> 0

(***************************************************************************)
(* Stuck detector (src/agent/stuck-detector.ts).                           *)
(***************************************************************************)
\* constructor: clamp maxIterations to [MIN, MAX]
NewStuckDetector(maxIter) ==
  [ history |-> <<>>,
    iteration |-> 0,
    maxIterations |-> Min(Max(maxIter, MAX_ITERATIONS_MIN), MAX_ITERATIONS_MAX) ]

\* record(toolName, inputStr)
Record(d, toolName, inputStr) ==
  [ d EXCEPT !.iteration = d.iteration + 1,
             !.history = Append(d.history,
                                [ toolName |-> toolName,
                                  inputHash |-> Hash(inputStr),
                                  iteration |-> d.iteration + 1 ]) ]

NotStuck == [isStuck |-> FALSE, shouldTerminate |-> FALSE, message |-> "none"]

\* check() without the same-input rule (condition 2)
CheckWithoutSameCall(d) ==
  IF d.iteration >= d.maxIterations
  THEN [isStuck |-> TRUE, shouldTerminate |-> TRUE, message |-> "max iterations"]
  ELSE IF Len(d.history) < SAME_CALL_THRESHOLD
  THEN NotStuck
  ELSE LET recentSingleTool == SliceLast(d.history, SINGLE_TOOL_THRESHOLD)
       IN IF /\ Len(d.history) >= SINGLE_TOOL_THRESHOLD
             /\ \A i \in 1..Len(recentSingleTool) :
                   recentSingleTool[i].toolName = recentSingleTool[1].toolName
          THEN [isStuck |-> TRUE, shouldTerminate |-> FALSE, message |-> "single tool"]
          ELSE NotStuck

\* check() without the single-tool rule (condition 3)
CheckWithoutSingleTool(d) ==
  IF d.iteration >= d.maxIterations
  THEN [isStuck |-> TRUE, shouldTerminate |-> TRUE, message |-> "max iterations"]
  ELSE IF Len(d.history) < SAME_CALL_THRESHOLD
  THEN NotStuck
  ELSE LET recentSameCalls == SliceLast(d.history, SAME_CALL_THRESHOLD)
       IN IF \A i \in 1..Len(recentSameCalls) :
                /\ recentSameCalls[i].toolName = recentSameCalls[1].toolName
                /\ recentSameCalls[i].inputHash = recentSameCalls[1].inputHash
          THEN [isStuck |-> TRUE, shouldTerminate |-> FALSE, message |-> "same input"]
          ELSE NotStuck

\* check() with the maximum rule evaluated after the pattern rules
CheckPatternsFirst(d) ==
  LET recentSameCalls == SliceLast(d.history, SAME_CALL_THRESHOLD)
      recentSingleTool == SliceLast(d.history, SINGLE_TOOL_THRESHOLD)
  IN IF /\ Len(d.history) >= SAME_CALL_THRESHOLD
        /\ \A i \in 1..Len(recentSameCalls) :
              /\ recentSameCalls[i].toolName = recentSameCalls[1].toolName
              /\ recentSameCalls[i].inputHash = recentSameCalls[1].inputHash
     THEN [isStuck |-> TRUE, shouldTerminate |-> FALSE, message |-> "same input"]
     ELSE IF /\ Len(d.history) >= SINGLE_TOOL_THRESHOLD
             /\ \A i \in 1..Len(recentSingleTool) :
                   recentSingleTool[i].toolName = recentSingleTool[1].toolName
     THEN [isStuck |-> TRUE, shouldTerminate |-> FALSE, message |-> "single tool"]
     ELSE IF d.iteration >= d.maxIterations
     THEN [isStuck |-> TRUE, shouldTerminate |-> TRUE, message |-> "max iterations"]
     ELSE NotStuck

\* check() without the guard on fewer than 3 records
CheckWithoutMinimum(d) ==
  IF d.iteration >= d.maxIterations
  THEN [isStuck |-> TRUE, shouldTerminate |-> TRUE, message |-> "max iterations"]
  ELSE IF Len(d.history) = 0
  THEN NotStuck
  ELSE LET recentSameCalls == SliceLast(d.history, SAME_CALL_THRESHOLD)
           recentSingleTool == SliceLast(d.history, SINGLE_TOOL_THRESHOLD)
       IN IF \A i \in 1..Len(recentSameCalls) :
                /\ recentSameCalls[i].toolName = recentSameCalls[1].toolName
                /\ recentSameCalls[i].inputHash = recentSameCalls[1].inputHash
          THEN [isStuck |-> TRUE, shouldTerminate |-> FALSE, message |-> "same input"]
          ELSE IF /\ Len(d.history) >= SINGLE_TOOL_THRESHOLD
                  /\ \A i \in 1..Len(recentSingleTool) :
                        recentSingleTool[i].toolName = recentSingleTool[1].toolName
          THEN [isStuck |-> TRUE, shouldTerminate |-> FALSE, message |-> "single tool"]
          ELSE NotStuck

\* check()
Check(d) ==
  IF d.iteration >= d.maxIterations
  THEN [isStuck |-> TRUE, shouldTerminate |-> TRUE, message |-> "max iterations"]
  ELSE IF Len(d.history) < SAME_CALL_THRESHOLD
  THEN NotStuck
  ELSE LET recentSameCalls == SliceLast(d.history, SAME_CALL_THRESHOLD)
           recentSingleTool == SliceLast(d.history, SINGLE_TOOL_THRESHOLD)
       IN IF \A i \in 1..Len(recentSameCalls) :
                /\ recentSameCalls[i].toolName = recentSameCalls[1].toolName
                /\ recentSameCalls[i].inputHash = recentSameCalls[1].inputHash
          THEN [isStuck |-> TRUE, shouldTerminate |-> FALSE, message |-> "same input"]
          ELSE IF /\ Len(d.history) >= SINGLE_TOOL_THRESHOLD
                  /\ \A i \in 1..Len(recentSingleTool) :
                        recentSingleTool[i].toolName = recentSingleTool[1].toolName
          THEN [isStuck |-> TRUE, shouldTerminate |-> FALSE, message |-> "single tool"]
          ELSE NotStuck

(***************************************************************************)
(* State store: tasks, tool_calls, conversations (src/db/tasks.ts).        *)
(***************************************************************************)
\* createTask: INSERT, status defaults to running
createTask(t) == Append(t, [status |-> "running", result |-> "", iterations |-> 0])
\* UPDATE tasks SET status = 'completed', result = ? WHERE id = ?
completeTask(t, id, result) ==
  [t EXCEPT ![id].status = "completed", ![id].result = result]
\* UPDATE tasks SET status = 'failed', result = ? WHERE id = ?
failTask(t, id, error) ==
  [t EXCEPT ![id].status = "failed", ![id].result = error]
\* UPDATE tasks SET status = 'stuck', result = ? WHERE id = ?
markStuck(t, id, reason) ==
  [t EXCEPT ![id].status = "stuck", ![id].result = reason]
\* UPDATE tasks SET iterations = iterations + 1 WHERE id = ?
incrementIterations(t, id) ==
  [t EXCEPT ![id].iterations = t[id].iterations + 1]
\* INSERT INTO tool_calls (the columns task_id, tool_name, input)
logToolCall(tc, id, toolName, input, success) ==
  Append(tc, [task_id |-> id, tool_name |-> toolName, input |-> input])
\* INSERT INTO conversations
saveConversation(c, role) == Append(c, role)
\* SELECT ... ORDER BY created_at ASC LIMIT 100
getConversationHistory(c) == SubSeq(c, 1, Min(Len(c), 100))

(***************************************************************************)
(* One agent run: runAgent / agentLoop (src/agent/agent.ts, 188-361).      *)
(***************************************************************************)
Ev(type, val) == [type |-> type, val |-> val]

\* exceptions raised inside the try block (the StuckError included)
InTryErrors == {"llm failed", "executeToolCalls failed", "store failed",
                "max iterations"}

InitAgent ==
  /\ pc = "createTask"
  /\ maxIterations = 0
  /\ taskId = 0
  /\ tasks = <<>>
  /\ conversations = <<>>
  /\ toolCalls = <<>>
  /\ messages = <<>>
  /\ detector = NewStuckDetector(0)
  /\ response = NoResponse
  /\ functionResponses = <<>>
  /\ idx = 0
  /\ events = <<>>
  /\ aborted = FALSE
  /\ isShuttingDown = FALSE
  /\ err = "none"
  /\ thrown = FALSE
  /\ repertoire = {}
  /\ llmCalls = 0
  /\ terminateVerdict = FALSE
  /\ finalAnswer = FALSE

\* the generator is suspended (await or yield) or has not been started
Suspended ==
  pc \in {"createTask", "llm", "toolCalls", "executeToolCalls", "toolResults",
          "stuckCheck", "loop"}

\* the client disconnects: options.signal becomes aborted
Abort ==
  /\ UNCHANGED outsideAgent
  /\ Suspended /\ ~aborted
  /\ aborted' = TRUE
  /\ UNCHANGED <<pc, maxIterations, taskId, tasks, conversations, toolCalls,
                 messages, detector, response, functionResponses, idx, events,
                 isShuttingDown, err, thrown, repertoire, llmCalls, terminateVerdict,
                 finalAnswer>>

\* SIGINT / SIGTERM: shutdown() sets isShuttingDown
Shutdown ==
  /\ UNCHANGED outsideAgent
  /\ Suspended /\ ~isShuttingDown
  /\ isShuttingDown' = TRUE
  /\ UNCHANGED <<pc, maxIterations, taskId, tasks, conversations, toolCalls,
                 messages, detector, response, functionResponses, idx, events,
                 aborted, err, thrown, repertoire, llmCalls, terminateVerdict, finalAnswer>>

\* an exception raised outside the try block leaves the generator
Propagate(e) ==
  /\ UNCHANGED outsideAgent
  /\ pc' = "ended" /\ err' = e /\ thrown' = TRUE
  /\ UNCHANGED <<maxIterations, taskId, tasks, conversations, toolCalls,
                 messages, detector, response, functionResponses, idx, events,
                 aborted, isShuttingDown, repertoire, llmCalls, terminateVerdict,
                 finalAnswer>>

\* an exception raised inside the try block goes to the catch block
Raise(e) ==
  /\ UNCHANGED outsideAgent
  /\ pc' = "catch" /\ err' = e
  /\ UNCHANGED <<maxIterations, taskId, conversations, toolCalls, messages,
                 detector, response, functionResponses, idx, aborted,
                 isShuttingDown, thrown, repertoire, llmCalls, finalAnswer>>

\* lines 193-206: runAgent is called with some options.maxIterations and
\* an LLM that asks for the calls of some repertoire;
\* new StuckDetector(maxIterations), then
\* const taskId = tasks.createTask(sessionId, userMessage)
CreateTask ==
  /\ UNCHANGED outsideAgent
  /\ pc = "createTask"
  /\ \E m \in MaxIterationsInputs :
       /\ maxIterations' = m
       /\ detector' = NewStuckDetector(m)
  /\ repertoire' \in Repertoires
  /\ tasks' = createTask(tasks)
  /\ taskId' = Len(tasks')
  /\ pc' = "assembleContext"
  /\ UNCHANGED <<conversations, toolCalls, messages,
                 response, functionResponses, idx, events, aborted,
                 isShuttingDown, err, thrown, llmCalls, terminateVerdict,
                 finalAnswer>>

CreateTaskThrows ==
  /\ pc = "createTask"
  /\ Propagate("createTask failed")

\* line 210: assembleContext(userMessage, sessionId)
AssembleContext ==
  /\ UNCHANGED outsideAgent
  /\ pc = "assembleContext"
  /\ pc' = "getConversationHistory"
  /\ UNCHANGED <<maxIterations, taskId, tasks, conversations, toolCalls,
                 messages, detector, response, functionResponses, idx, events,
                 aborted, isShuttingDown, err, thrown, repertoire, llmCalls,
                 terminateVerdict, finalAnswer>>

AssembleContextThrows ==
  /\ pc = "assembleContext"
  /\ Propagate("assembleContext failed")

\* lines 213-217: history rows, then the user turn
LoadHistory ==
  /\ UNCHANGED outsideAgent
  /\ pc = "getConversationHistory"
  /\ messages' = getConversationHistory(conversations) \o <<"user">>
  /\ pc' = "loop"
  /\ UNCHANGED <<maxIterations, taskId, tasks, conversations, toolCalls,
                 detector, response, functionResponses, idx, events, aborted,
                 isShuttingDown, err, thrown, repertoire, llmCalls, terminateVerdict,
                 finalAnswer>>

LoadHistoryThrows ==
  /\ pc = "getConversationHistory"
  /\ Propagate("getConversationHistory failed")

\* LoopEnter with a loop condition that tests the shutdown flag only
LoopEnterIgnoresAbort ==
  /\ UNCHANGED outsideAgent
  /\ pc = "loop"
  /\ ~isShuttingDown
  /\ tasks' = incrementIterations(tasks, taskId)
  /\ llmCalls' = llmCalls + 1
  /\ pc' = "llm"
  /\ UNCHANGED <<maxIterations, taskId, conversations, toolCalls, messages,
                 detector, response, functionResponses, idx, events, aborted,
                 isShuttingDown, err, thrown, repertoire, terminateVerdict,
                 finalAnswer>>

\* lines 220-235: loop condition true, incrementIterations, llm.chat issued
LoopEnter ==
  /\ UNCHANGED outsideAgent
  /\ pc = "loop"
  /\ ~isShuttingDown /\ ~aborted
  /\ tasks' = incrementIterations(tasks, taskId)
  /\ llmCalls' = llmCalls + 1
  /\ pc' = "llm"
  /\ UNCHANGED <<maxIterations, taskId, conversations, toolCalls, messages,
                 detector, response, functionResponses, idx, events, aborted,
                 isShuttingDown, err, thrown, repertoire, terminateVerdict,
                 finalAnswer>>

IncrementIterationsThrows ==
  /\ pc = "loop"
  /\ ~isShuttingDown /\ ~aborted
  /\ Raise("store failed")
  /\ UNCHANGED <<tasks, events, terminateVerdict>>

\* line 220: loop condition false
LoopExit ==
  /\ UNCHANGED outsideAgent
  /\ pc = "loop"
  /\ isShuttingDown \/ aborted
  /\ pc' = "exit"
  /\ UNCHANGED <<maxIterations, taskId, tasks, conversations, toolCalls,
                 messages, detector, response, functionResponses, idx, events,
                 aborted, isShuttingDown, err, thrown, repertoire, llmCalls,
                 terminateVerdict, finalAnswer>>

\* lines 229-277: llm.chat returns r; yield thinking, yield text; then either
\* the completion branch or the function calls are pushed to the messages
LLMReturn ==
  /\ UNCHANGED outsideAgent
  /\ pc = "llm"
  /\ \E r \in Responses(repertoire) :
       /\ response' = r
       /\ events' = events
                    \o (IF r.thinking THEN <<Ev("thinking", "")>> ELSE <<>>)
                    \o (IF r.text THEN <<Ev("text", "")>> ELSE <<>>)
       /\ IF Len(r.functionCalls) = 0
          THEN /\ pc' = "complete"
               /\ finalAnswer' = TRUE
               /\ UNCHANGED <<messages, idx>>
          ELSE /\ pc' = "toolCalls"
               /\ messages' = Append(messages, "model functionCalls")
               /\ idx' = 1
               /\ UNCHANGED finalAnswer
  /\ UNCHANGED <<maxIterations, taskId, tasks, conversations, toolCalls,
                 detector, functionResponses, aborted, isShuttingDown, err,
                 thrown, repertoire, llmCalls, terminateVerdict>>

\* lines 236-239: llm.chat rejects, the error is rethrown
LLMThrows ==
  /\ pc = "llm"
  /\ Raise("llm failed")
  /\ UNCHANGED <<tasks, events, terminateVerdict>>

Summary == IF response.text THEN "text" ELSE "Task completed."

\* lines 254-270: completeTask, saveConversation x2, yield done, return
Complete ==
  /\ UNCHANGED outsideAgent
  /\ pc = "complete"
  /\ tasks' = completeTask(tasks, taskId, Summary)
  /\ conversations' = saveConversation(saveConversation(conversations, "user"), "model")
  /\ events' = Append(events, Ev("done", Summary))
  /\ pc' = "ended"
  /\ UNCHANGED <<maxIterations, taskId, toolCalls, messages, detector,
                 response, functionResponses, idx, aborted, isShuttingDown,
                 err, thrown, repertoire, llmCalls, terminateVerdict, finalAnswer>>

CompleteTaskThrows ==
  /\ pc = "complete"
  /\ Raise("store failed")
  /\ UNCHANGED <<tasks, events, terminateVerdict>>

\* completeTask has succeeded, then one of the two saveConversation throws
SaveConversationThrows ==
  /\ UNCHANGED outsideAgent
  /\ pc = "complete"
  /\ tasks' = completeTask(tasks, taskId, Summary)
  /\ pc' = "catch" /\ err' = "store failed"
  /\ \E saved \in {<<>>, <<"user">>} : conversations' = conversations \o saved
  /\ UNCHANGED <<maxIterations, taskId, toolCalls, messages, detector,
                 response, functionResponses, idx, events, aborted,
                 isShuttingDown, thrown, repertoire, llmCalls, terminateVerdict,
                 finalAnswer>>

\* lines 280-286: yield tool_call, detector.record
EmitToolCall ==
  /\ UNCHANGED outsideAgent
  /\ pc = "toolCalls"
  /\ LET fc == response.functionCalls[idx] IN
       /\ events' = Append(events, Ev("tool_call", fc.name))
       /\ detector' = Record(detector, fc.name, JSONStringify(fc.args))
  /\ IF idx = Len(response.functionCalls)
     THEN pc' = "executeToolCalls" /\ idx' = 0
     ELSE pc' = pc /\ idx' = idx + 1
  /\ UNCHANGED <<maxIterations, taskId, tasks, conversations, toolCalls,
                 messages, response, functionResponses, aborted,
                 isShuttingDown, err, thrown, repertoire, llmCalls, terminateVerdict,
                 finalAnswer>>

\* lines 288-291: executeToolCalls returns the batch's results in input
\* order; if (signal?.aborted) break
ExecuteToolCallsReturn ==
  /\ UNCHANGED outsideAgent
  /\ pc = "executeToolCalls"
  /\ \E ok \in [1..Len(response.functionCalls) -> BOOLEAN] :
       functionResponses' =
         [i \in 1..Len(response.functionCalls) |->
            [name |-> response.functionCalls[i].name, success |-> ok[i]]]
  /\ IF aborted THEN pc' = "exit" /\ idx' = 0
                ELSE pc' = "toolResults" /\ idx' = 1
  /\ UNCHANGED <<maxIterations, taskId, tasks, conversations, toolCalls,
                 messages, detector, response, events, aborted,
                 isShuttingDown, err, thrown, repertoire, llmCalls, terminateVerdict,
                 finalAnswer>>

ExecuteToolCallsThrows ==
  /\ pc = "executeToolCalls"
  /\ Raise("executeToolCalls failed")
  /\ UNCHANGED <<tasks, events, terminateVerdict>>

\* line 302: response.functionCalls.find((fc) => fc.name === fr.name)
MatchingCall(calls, name) ==
  calls[CHOOSE i \in 1..Len(calls) :
          /\ calls[i].name = name
          /\ \A j \in 1..(i - 1) : calls[j].name # name]

\* the result loop treating a Result with success = false as an exception
EmitToolResultFailureRaises ==
  \/ /\ pc = "toolResults"
     /\ ~functionResponses[idx].success
     /\ events' = Append(events, Ev("tool_result", functionResponses[idx].name))
     /\ Raise("tool failed")
     /\ UNCHANGED <<tasks, terminateVerdict>>
  \/ /\ functionResponses # <<>> /\ idx \in 1..Len(functionResponses)
     /\ functionResponses[idx].success
     /\ UNCHANGED outsideAgent
     /\ pc = "toolResults"
     /\ LET fr == functionResponses[idx] IN
          /\ events' = Append(events, Ev("tool_result", fr.name))
          /\ toolCalls' = logToolCall(toolCalls, taskId, fr.name,
                            JSONStringify(MatchingCall(response.functionCalls, fr.name).args),
                            fr.success)
     /\ IF idx = Len(functionResponses)
        THEN /\ pc' = "stuckCheck" /\ idx' = 0
             /\ messages' = Append(messages, "user functionResponses")
             /\ response' = NoResponse
             /\ functionResponses' = <<>>
        ELSE /\ pc' = pc /\ idx' = idx + 1
             /\ UNCHANGED <<messages, response, functionResponses>>
     /\ UNCHANGED <<maxIterations, taskId, tasks, conversations, detector,
                    aborted, isShuttingDown, err, thrown, repertoire, llmCalls,
                    terminateVerdict, finalAnswer>>

\* lines 294-322: yield tool_result, logToolCall; after the last one the
\* function responses are pushed to the messages (response and
\* functionResponses are locals of the iteration and are dead from there on)
EmitToolResult ==
  /\ UNCHANGED outsideAgent
  /\ pc = "toolResults"
  /\ LET fr == functionResponses[idx] IN
       /\ events' = Append(events, Ev("tool_result", fr.name))
       /\ toolCalls' = logToolCall(toolCalls, taskId, fr.name,
                         JSONStringify(MatchingCall(response.functionCalls, fr.name).args),
                         fr.success)
  /\ IF idx = Len(functionResponses)
     THEN /\ pc' = "stuckCheck" /\ idx' = 0
          /\ messages' = Append(messages, "user functionResponses")
          /\ response' = NoResponse
          /\ functionResponses' = <<>>
     ELSE /\ pc' = pc /\ idx' = idx + 1
          /\ UNCHANGED <<messages, response, functionResponses>>
  /\ UNCHANGED <<maxIterations, taskId, tasks, conversations, detector,
                 aborted, isShuttingDown, err, thrown, repertoire, llmCalls,
                 terminateVerdict, finalAnswer>>

\* the tool_result has been yielded, then logToolCall throws
LogToolCallThrows ==
  /\ pc = "toolResults"
  /\ events' = Append(events, Ev("tool_result", functionResponses[idx].name))
  /\ Raise("store failed")
  /\ UNCHANGED <<tasks, terminateVerdict>>

\* lines 325-337: check() says terminate: markStuck, yield stuck_warning,
\* yield error, throw new StuckError (inside the try block)
StuckTerminate ==
  /\ pc = "stuckCheck"
  /\ LET stuckCheck == Check(detector) IN
       /\ stuckCheck.isStuck /\ stuckCheck.shouldTerminate
       /\ tasks' = markStuck(tasks, taskId, stuckCheck.message)
       /\ events' = events \o <<Ev("stuck_warning", stuckCheck.message),
                                Ev("error", stuckCheck.message)>>
       /\ Raise(stuckCheck.message)
  /\ terminateVerdict' = TRUE

MarkStuckThrows ==
  /\ pc = "stuckCheck"
  /\ LET stuckCheck == Check(detector) IN
       stuckCheck.isStuck /\ stuckCheck.shouldTerminate
  /\ Raise("store failed")
  /\ terminateVerdict' = TRUE
  /\ UNCHANGED <<tasks, events>>

\* lines 339-344: warn only: yield stuck_warning, push the system warning
StuckWarn ==
  /\ UNCHANGED outsideAgent
  /\ pc = "stuckCheck"
  /\ LET stuckCheck == Check(detector) IN
       /\ stuckCheck.isStuck /\ ~stuckCheck.shouldTerminate
       /\ events' = Append(events, Ev("stuck_warning", stuckCheck.message))
  /\ messages' = Append(messages, "user SYSTEM WARNING")
  /\ pc' = "loop"
  /\ UNCHANGED <<maxIterations, taskId, tasks, conversations, toolCalls,
                 detector, response, functionResponses, idx, aborted,
                 isShuttingDown, err, thrown, repertoire, llmCalls, terminateVerdict,
                 finalAnswer>>

\* line 326: not stuck, next iteration
NotStuckContinue ==
  /\ UNCHANGED outsideAgent
  /\ pc = "stuckCheck"
  /\ ~Check(detector).isStuck
  /\ pc' = "loop"
  /\ UNCHANGED <<maxIterations, taskId, tasks, conversations, toolCalls,
                 messages, detector, response, functionResponses, idx, events,
                 aborted, isShuttingDown, err, thrown, repertoire, llmCalls,
                 terminateVerdict, finalAnswer>>

Reason == IF aborted THEN "Client disconnected" ELSE "Shutdown requested"

\* lines 348-352: failTask(reason), yield done
Exit ==
  /\ UNCHANGED outsideAgent
  /\ pc = "exit"
  /\ tasks' = failTask(tasks, taskId, Reason)
  /\ events' = Append(events, Ev("done", "Agent stopped: " \o Reason \o "."))
  /\ pc' = "ended"
  /\ UNCHANGED <<maxIterations, taskId, conversations, toolCalls, messages,
                 detector, response, functionResponses, idx, aborted,
                 isShuttingDown, err, thrown, repertoire, llmCalls, terminateVerdict,
                 finalAnswer>>

ExitFailTaskThrows ==
  /\ pc = "exit"
  /\ Raise("store failed")
  /\ UNCHANGED <<tasks, events, terminateVerdict>>

\* Catch with a rethrow at the end of the catch block
CatchRethrows ==
  /\ UNCHANGED outsideAgent
  /\ pc = "catch"
  /\ tasks' = failTask(tasks, taskId, err)
  /\ events' = Append(events, Ev("error", err))
  /\ pc' = "ended"
  /\ thrown' = TRUE
  /\ UNCHANGED <<maxIterations, taskId, conversations, toolCalls, messages,
                 detector, response, functionResponses, idx, aborted,
                 isShuttingDown, err, repertoire, llmCalls, terminateVerdict,
                 finalAnswer>>

\* lines 353-358: catch (err): failTask(msg), yield error; no rethrow
Catch ==
  /\ UNCHANGED outsideAgent
  /\ pc = "catch"
  /\ tasks' = failTask(tasks, taskId, err)
  /\ events' = Append(events, Ev("error", err))
  /\ pc' = "ended"
  /\ UNCHANGED <<maxIterations, taskId, conversations, toolCalls, messages,
                 detector, response, functionResponses, idx, aborted,
                 isShuttingDown, err, thrown, repertoire, llmCalls, terminateVerdict,
                 finalAnswer>>

\* failTask throws inside the catch block: this exception leaves the generator
CatchFailTaskThrows ==
  /\ UNCHANGED outsideAgent
  /\ pc = "catch"
  /\ pc' = "ended"
  /\ thrown' = TRUE
  /\ UNCHANGED <<maxIterations, taskId, tasks, conversations, toolCalls,
                 messages, detector, response, functionResponses, idx, events,
                 aborted, isShuttingDown, err, repertoire, llmCalls, terminateVerdict,
                 finalAnswer>>

(***************************************************************************)
(* HTTP chat handler: handleChat (src/api/routes.ts, 204-282).             *)
(***************************************************************************)
Requests == 1..NumRequests

InitChat ==
  /\ activeChatCount = 0
  /\ req = [r \in Requests |-> [pc |-> "arriving", status |-> 0, outcome |-> "none"]]

\* lines 206-208: the concurrency guard, then await req.json() is started
ChatGuard(r) ==
  /\ UNCHANGED outsideChat
  /\ req[r].pc = "arriving"
  /\ IF activeChatCount >= MAX_CONCURRENT_CHATS
     THEN req' = [req EXCEPT ![r].pc = "responded", ![r].status = 429]
     ELSE req' = [req EXCEPT ![r].pc = "json"]
  /\ UNCHANGED activeChatCount

\* lines 211-220: the body is not JSON, or has no message
ChatBadRequest(r) ==
  /\ UNCHANGED outsideChat
  /\ req[r].pc = "json"
  /\ req' = [req EXCEPT ![r].pc = "responded", ![r].status = 400]
  /\ UNCHANGED activeChatCount

\* setTimeout: the runtime's list of pending timers, kept in order of
\* expiry, with one more timer that expires at time t
SetTimeout(timers, t) ==
  LET k == Cardinality({i \in 1..Len(timers) : timers[i] <= t})
  IN SubSeq(timers, 1, k) \o <<t>> \o SubSeq(timers, k + 1, Len(timers))

\* interruptLoop(durationMs), consciousness.ts 1330-1333: the flag is set
\* and a timer is started that clears it
interruptLoop(duration) ==
  /\ isInterrupted' = TRUE
  /\ leases' = SetTimeout(leases, time + duration)

\* lines 222-231 and 275: req.json() has resolved with a valid body;
\* interruptLoop(60000), activeChatCount++, the stream is started and the
\* Response returned
ChatAccept(r) ==
  /\ UNCHANGED <<agentVars, bucketVars, detectorVars, hookVars, sseVars,
                 executorVars, configVars, ledgerVars,
                 knowledgeVars, cycleVars, historyVars>>
  /\ interruptLoop(CHAT_LEASE)
  /\ UNCHANGED <<isLoopRunning, loopCall, time>>
  /\ req[r].pc = "json"
  /\ activeChatCount' = activeChatCount + 1
  /\ req' = [req EXCEPT ![r].pc = "streaming", ![r].status = 200]

\* lines 252-273 with activeChatCount-- at the end of the try block
\* instead of in finally
ChatStreamEndNoFinally(r) ==
  /\ UNCHANGED outsideChat
  /\ req[r].pc = "streaming"
  /\ \E o \in {"completed", "agent error", "client disconnected"} :
       /\ req' = [req EXCEPT ![r].pc = "closed", ![r].outcome = o]
       /\ activeChatCount' = IF o = "agent error" THEN activeChatCount
                                                 ELSE activeChatCount - 1

\* lines 252-273: the for-await loop ends (agent done, agent exception or
\* client abort), finally: activeChatCount--, controller.close()
ChatStreamEnd(r) ==
  /\ UNCHANGED outsideChat
  /\ req[r].pc = "streaming"
  /\ \E o \in {"completed", "agent error", "client disconnected"} :
       req' = [req EXCEPT ![r].pc = "closed", ![r].outcome = o]
  /\ activeChatCount' = activeChatCount - 1

(***************************************************************************)
(* Token bucket: class RateLimiter (src/core/ratelimit.ts, 22-119).        *)
(* The runtime is single-threaded: the code between two awaits runs as one *)
(* step; acquire() has one await, the setTimeout of line 73.               *)
(***************************************************************************)
Callers == 1..NumCallers

\* the options the limiter is constructed with
RateLimiterOptions ==
  { [tokensPerInterval |-> 1, intervalMs |-> 1, maxTokens |-> 2],
    [tokensPerInterval |-> 2, intervalMs |-> 3, maxTokens |-> 2] }

NoLimiter ==
  [constructed |-> FALSE, tokensPerInterval |-> 1, intervalMs |-> 1,
   maxTokens |-> 0, tokens |-> 0, lastRefill |-> 0]

\* calledAt and needed: when the call was made and how many tokens it was
\* short of
NoCall == [pc |-> "idle", op |-> "none", tokens |-> 0, wakeAt |-> 0, granted |-> FALSE,
           calledAt |-> 0, needed |-> 0]

\* Math.ceil(a / b) for a >= 0, b > 0
CeilDiv(a, b) == (a + b - 1) \div b

\* refill(), lines 45-54: the tokens it adds
TokensToAdd(l, now) ==
  ((now - l.lastRefill) * l.tokensPerInterval) \div l.intervalMs

\* refill(), lines 45-54: the limiter afterwards
Refill(l, now) ==
  IF TokensToAdd(l, now) > 0
  THEN [l EXCEPT !.tokens = Min(l.maxTokens, l.tokens + TokensToAdd(l, now)),
                 !.lastRefill = now]
  ELSE l

\* what a refill() at time now adds to the bucket
Refilled(l, now) == Refill(l, now).tokens - l.tokens

InitBucket ==
  /\ limiter = NoLimiter
  /\ clock = 0
  /\ rlCall = [c \in Callers |-> NoCall]
  /\ grantedTokens = 0
  /\ refilledTokens = 0

\* constructor, lines 33-39
NewRateLimiter ==
  /\ UNCHANGED outsideBucket
  /\ ~limiter.constructed
  /\ \E o \in RateLimiterOptions :
       limiter' = [constructed |-> TRUE,
                   tokensPerInterval |-> o.tokensPerInterval,
                   intervalMs |-> o.intervalMs,
                   maxTokens |-> o.maxTokens,
                   tokens |-> o.maxTokens,
                   lastRefill |-> clock]
  /\ UNCHANGED <<clock, rlCall, grantedTokens, refilledTokens>>

\* time passes
Tick ==
  /\ UNCHANGED outsideBucket
  /\ limiter.constructed
  /\ clock < MaxClock
  /\ clock' = clock + 1
  /\ UNCHANGED <<limiter, rlCall, grantedTokens, refilledTokens>>

\* acquire(tokens), lines 61-67: enough tokens, they are taken at once
AcquireNow(c) ==
  /\ UNCHANGED outsideBucket
  /\ limiter.constructed
  /\ rlCall[c].pc = "idle"
  /\ \E n \in 1..limiter.maxTokens :
       LET l == Refill(limiter, clock)
       IN /\ l.tokens >= n
          /\ limiter' = [l EXCEPT !.tokens = l.tokens - n]
          /\ rlCall' = [rlCall EXCEPT ![c] = [pc |-> "done", op |-> "acquire",
                          tokens |-> n, wakeAt |-> clock, granted |-> TRUE,
                          calledAt |-> clock, needed |-> 0]]
          /\ grantedTokens' = grantedTokens + n
          /\ refilledTokens' = refilledTokens + Refilled(limiter, clock)
  /\ UNCHANGED clock

\* acquire(tokens) with the wait rounded down instead of up
AcquireWaitRoundedDown(c) ==
  /\ UNCHANGED outsideBucket
  /\ limiter.constructed
  /\ rlCall[c].pc = "idle"
  /\ \E n \in 1..limiter.maxTokens :
       LET l == Refill(limiter, clock)
           tokensNeeded == n - l.tokens
           waitMs == (tokensNeeded * l.intervalMs) \div l.tokensPerInterval
       IN /\ l.tokens < n
          /\ limiter' = l
          /\ rlCall' = [rlCall EXCEPT ![c] = [pc |-> "waiting", op |-> "acquire",
                          tokens |-> n, wakeAt |-> clock + waitMs, granted |-> FALSE,
                          calledAt |-> clock, needed |-> tokensNeeded]]
          /\ refilledTokens' = refilledTokens + Refilled(limiter, clock)
  /\ UNCHANGED <<clock, grantedTokens>>

\* acquire(tokens), lines 61-73: not enough tokens, the call computes its
\* wait from the deficit and suspends on the timer
AcquireWait(c) ==
  /\ UNCHANGED outsideBucket
  /\ limiter.constructed
  /\ rlCall[c].pc = "idle"
  /\ \E n \in 1..limiter.maxTokens :
       LET l == Refill(limiter, clock)
           tokensNeeded == n - l.tokens
           waitMs == CeilDiv(tokensNeeded * l.intervalMs, l.tokensPerInterval)
       IN /\ l.tokens < n
          /\ limiter' = l
          /\ rlCall' = [rlCall EXCEPT ![c] = [pc |-> "waiting", op |-> "acquire",
                          tokens |-> n, wakeAt |-> clock + waitMs, granted |-> FALSE,
                          calledAt |-> clock, needed |-> tokensNeeded]]
          /\ refilledTokens' = refilledTokens + Refilled(limiter, clock)
  /\ UNCHANGED <<clock, grantedTokens>>

\* acquire(tokens), lines 73-76: the timer has fired; refill() and
\* this.tokens -= tokens, without a second test of the balance
AcquireWake(c) ==
  /\ UNCHANGED outsideBucket
  /\ rlCall[c].pc = "waiting"
  /\ clock >= rlCall[c].wakeAt
  /\ LET l == Refill(limiter, clock)
     IN /\ limiter' = [l EXCEPT !.tokens = l.tokens - rlCall[c].tokens]
        /\ refilledTokens' = refilledTokens + Refilled(limiter, clock)
  /\ rlCall' = [rlCall EXCEPT ![c].pc = "done", ![c].granted = TRUE]
  /\ grantedTokens' = grantedTokens + rlCall[c].tokens
  /\ UNCHANGED clock

\* tryAcquire(tokens), lines 83-92
TryAcquire(c) ==
  /\ UNCHANGED outsideBucket
  /\ limiter.constructed
  /\ rlCall[c].pc = "idle"
  /\ \E n \in 1..limiter.maxTokens :
       LET l == Refill(limiter, clock)
       IN /\ IF l.tokens >= n
             THEN /\ limiter' = [l EXCEPT !.tokens = l.tokens - n]
                  /\ grantedTokens' = grantedTokens + n
             ELSE /\ limiter' = l
                  /\ UNCHANGED grantedTokens
          /\ rlCall' = [rlCall EXCEPT ![c] = [pc |-> "done", op |-> "tryAcquire",
                          tokens |-> n, wakeAt |-> clock, granted |-> l.tokens >= n,
                          calledAt |-> clock, needed |-> 0]]
          /\ refilledTokens' = refilledTokens + Refilled(limiter, clock)
  /\ UNCHANGED clock

(***************************************************************************)
(* A StuckDetector used through its public methods                         *)
(* (src/agent/stuck-detector.ts, 36-167).  The calls it records are those  *)
(* of one repertoire.                                                      *)
(***************************************************************************)
\* constructor arguments that are tried
DetectorMaxIterationsInputs == {0, 5, 2000}

InitDetector ==
  /\ sd = NewStuckDetector(0)
  /\ sdArg = <<>>
  /\ checked = <<>>

\* new StuckDetector(maxIterations), lines 45-50
DetectorNew ==
  /\ UNCHANGED outsideDetector
  /\ sdArg = <<>>
  /\ \E m \in DetectorMaxIterationsInputs :
       /\ sd' = NewStuckDetector(m)
       /\ sdArg' = <<m>>
  /\ UNCHANGED checked

\* record(toolName, inputStr), lines 57-64
DetectorRecord ==
  /\ UNCHANGED outsideDetector
  /\ sdArg # <<>>
  /\ Len(sd.history) < MaxRecords
  /\ \E calls \in Repertoires :
       /\ \A i \in 1..Len(sd.history) :
            \E c \in calls : /\ sd.history[i].toolName = c.name
                             /\ sd.history[i].inputHash = Hash(JSONStringify(c.args))
       /\ \E fc \in calls :
            sd' = Record(sd, fc.name, JSONStringify(fc.args))
  /\ checked' = <<>>
  /\ UNCHANGED sdArg

\* check(), lines 70-114
DetectorCheck ==
  /\ UNCHANGED outsideDetector
  /\ sdArg # <<>>
  /\ checked' = <<Check(sd)>>
  /\ UNCHANGED <<sd, sdArg>>

\* reset(), lines 144-147
DetectorReset ==
  /\ UNCHANGED outsideDetector
  /\ sdArg # <<>>
  /\ sd.iteration > 0
  /\ sd' = [sd EXCEPT !.history = <<>>, !.iteration = 0]
  /\ checked' = <<>>
  /\ UNCHANGED sdArg

(***************************************************************************)
(* Consciousness driver: startConsciousnessLoop and interruptLoop          *)
(* (src/agent/consciousness.ts, 1144-1333).  Time is counted in seconds.   *)
(***************************************************************************)
Starts == 1..NumStarts

\* durations interruptLoop is called with
LeaseDurations == {2, 4}

\* positions of a startConsciousnessLoop call at which its loop is alive
LoopPositions == {"genesis", "check", "cycle", "sleeping"}

InitDriver ==
  /\ isLoopRunning = FALSE
  /\ isInterrupted = FALSE
  /\ loopCall = [s \in Starts |-> [pc |-> "idle", wakeAt |-> 0]]
  /\ leases = <<>>
  /\ time = 0

\* time passes
DriverTick ==
  /\ UNCHANGED outsideDriver
  /\ time < MaxTime
  /\ time' = time + 1
  /\ UNCHANGED <<isLoopRunning, isInterrupted, loopCall, leases>>

\* lines 1145-1157 without the guard of line 1145
StartConsciousnessLoopUnguarded(s) ==
  /\ UNCHANGED outsideDriver
  /\ loopCall[s].pc = "idle"
  /\ isLoopRunning' = TRUE
  /\ loopCall' = [loopCall EXCEPT ![s].pc = "genesis"]
  /\ UNCHANGED <<isInterrupted, leases, time>>

\* lines 1145-1157: return if a loop is running, else set the flag and
\* start the asynchronous start-up (import, thought count, genesis)
StartConsciousnessLoop(s) ==
  /\ UNCHANGED outsideDriver
  /\ loopCall[s].pc = "idle"
  /\ IF isLoopRunning
     THEN /\ loopCall' = [loopCall EXCEPT ![s].pc = "returned"]
          /\ UNCHANGED isLoopRunning
     ELSE /\ isLoopRunning' = TRUE
          /\ loopCall' = [loopCall EXCEPT ![s].pc = "genesis"]
  /\ UNCHANGED <<isInterrupted, leases, time>>

\* lines 1151-1160: the start-up is over (runGenesisSequence catches its
\* own errors), the loop reaches its condition
GenesisDone(s) ==
  /\ UNCHANGED outsideDriver
  /\ loopCall[s].pc = "genesis"
  /\ loopCall' = [loopCall EXCEPT ![s].pc = "check"]
  /\ UNCHANGED <<isLoopRunning, isInterrupted, leases, time>>

\* lines 1151-1153: getDB() or the thought count query throws; the call
\* rejects and isLoopRunning stays set
StartupThrows(s) ==
  /\ UNCHANGED outsideDriver
  /\ loopCall[s].pc = "genesis"
  /\ loopCall' = [loopCall EXCEPT ![s].pc = "rejected"]
  /\ UNCHANGED <<isLoopRunning, isInterrupted, leases, time>>

\* line 1162: the loop ends when shutdown has begun
LoopEnd(s) ==
  /\ UNCHANGED outsideDriver
  /\ loopCall[s].pc = "check"
  /\ isShuttingDown
  /\ loopCall' = [loopCall EXCEPT ![s].pc = "ended"]
  /\ UNCHANGED <<isLoopRunning, isInterrupted, leases, time>>

\* lines 1163-1166: interrupted, sleep 5 s and test again
SleepInterrupted(s) ==
  /\ UNCHANGED outsideDriver
  /\ loopCall[s].pc = "check"
  /\ ~isShuttingDown
  /\ isInterrupted
  /\ loopCall' = [loopCall EXCEPT ![s] = [pc |-> "sleeping",
                                           wakeAt |-> time + SLEEP_INTERRUPTED]]
  /\ UNCHANGED <<isLoopRunning, isInterrupted, leases, time>>

\* lines 1168-1249: a cycle begins: applyHourlyDebt, the reflection call
CycleBegin(s) ==
  /\ UNCHANGED outsideDriver
  /\ loopCall[s].pc = "check"
  /\ ~isShuttingDown
  /\ ~isInterrupted
  /\ loopCall' = [loopCall EXCEPT ![s].pc = "cycle"]
  /\ UNCHANGED <<isLoopRunning, isInterrupted, leases, time>>

\* lines 1256-1291: the cycle is over, sleep 2 s
CycleEnd(s) ==
  /\ UNCHANGED outsideDriver
  /\ loopCall[s].pc = "cycle"
  /\ loopCall' = [loopCall EXCEPT ![s] = [pc |-> "sleeping",
                                           wakeAt |-> time + SLEEP_CYCLE]]
  /\ UNCHANGED <<isLoopRunning, isInterrupted, leases, time>>

\* lines 1292-1295: a step of the cycle throws, cool down for 10 s
CycleThrows(s) ==
  /\ UNCHANGED outsideDriver
  /\ loopCall[s].pc = "cycle"
  /\ loopCall' = [loopCall EXCEPT ![s] = [pc |-> "sleeping",
                                           wakeAt |-> time + SLEEP_ERROR]]
  /\ UNCHANGED <<isLoopRunning, isInterrupted, leases, time>>

\* Bun.sleep resolves, lines 1164, 1291, 1294
Wake(s) ==
  /\ UNCHANGED outsideDriver
  /\ loopCall[s].pc = "sleeping"
  /\ time >= loopCall[s].wakeAt
  /\ loopCall' = [loopCall EXCEPT ![s] = [pc |-> "check", wakeAt |-> 0]]
  /\ UNCHANGED <<isLoopRunning, isInterrupted, leases, time>>

\* a user interaction calls interruptLoop(durationMs), lines 1330-1333
InterruptLoop ==
  /\ UNCHANGED outsideDriver
  /\ Len(leases) < NumLeases
  /\ \E d \in LeaseDurations : interruptLoop(d)
  /\ UNCHANGED <<isLoopRunning, loopCall, time>>

\* line 1332: the timer of lease i fires, isInterrupted = false
LeaseTimerFires(i) ==
  /\ UNCHANGED outsideDriver
  /\ i <= Len(leases)
  /\ time >= leases[i]
  /\ isInterrupted' = FALSE
  /\ leases' = SubSeq(leases, 1, i - 1) \o SubSeq(leases, i + 1, Len(leases))
  /\ UNCHANGED <<isLoopRunning, loopCall, time>>

(***************************************************************************)
(* Shutdown hooks: onShutdown and shutdown (src/core/signals.ts, 5-36),    *)
(* registered by main (src/index.ts, 84-86) and by startServer             *)
(* (src/api/server.ts, 159-160).  Until the server is up no browser and   *)
(* no chat exists, so the hooks of a signal that arrives during start-up   *)
(* settle within the event-loop turn of the signal and main() registers    *)
(* nothing while shutdown() is under way.                                  *)
(***************************************************************************)
Reverse(seq) == [i \in 1..Len(seq) |-> seq[Len(seq) + 1 - i]]

\* ways an awaited hook settles without returning: a synchronous throw
\* or a rejected promise
HookFailures == {"threw", "rejected"}

\* the signals setupSignalHandlers listens to (signals.ts 34-35)
Signals == {"SIGINT", "SIGTERM"}

InitShutdown ==
  /\ handlers = <<>>
  /\ mainPc = "initialised"
  /\ shutdownPc = "idle"
  /\ hookIdx = 0
  /\ hookLog = <<>>
  /\ registered = <<>>
  /\ signals = <<>>

\* onShutdown(handler), signals.ts 8-10
onShutdown(hs, handler) == Append(hs, handler)

\* index.ts 85-86: onShutdown(closeDB); onShutdown(closeBrowser)
MainRegisters ==
  /\ UNCHANGED outsideShutdown
  /\ mainPc = "initialised"
  /\ shutdownPc = "idle"
  /\ handlers' = onShutdown(onShutdown(handlers, "closeDB"), "closeBrowser")
  /\ registered' = registered \o <<"closeDB", "closeBrowser">>
  /\ mainPc' = "registered"
  /\ UNCHANGED <<isShuttingDown, shutdownPc, hookIdx, hookLog, signals>>

\* server.ts 160: onShutdown(stopServer), in server mode
StartServerRegisters ==
  /\ UNCHANGED outsideShutdown
  /\ mainPc = "registered"
  /\ shutdownPc = "idle"
  /\ handlers' = onShutdown(handlers, "stopServer")
  /\ registered' = Append(registered, "stopServer")
  /\ mainPc' = "serving"
  /\ UNCHANGED <<isShuttingDown, shutdownPc, hookIdx, hookLog, signals>>

\* signals.ts 22-30: the loop calls the hook at index i of hs and awaits
\* it, or calls process.exit(0) when the array is exhausted
CallNextHook(hs, i, log) ==
  IF i <= Len(hs)
  THEN /\ shutdownPc' = "awaiting"
       /\ hookIdx' = i
       /\ hookLog' = Append(log, [hook |-> hs[i], settled |-> "pending"])
  ELSE /\ shutdownPc' = "exited"
       /\ hookIdx' = i
       /\ hookLog' = log

\* the log once the hook in flight has settled
Settled(how) == [hookLog EXCEPT ![Len(hookLog)].settled = how]

\* signals.ts 16-24 with the array walked in registration order
ShutdownSignalInOrder ==
  /\ UNCHANGED outsideShutdown
  /\ ~isShuttingDown
  /\ shutdownPc = "idle"
  /\ isShuttingDown' = TRUE
  /\ UNCHANGED handlers
  /\ CallNextHook(handlers, 1, hookLog)
  /\ \E sig \in Signals : signals' = Append(signals, sig)
  /\ UNCHANGED <<mainPc, registered>>

\* signals.ts 16-24 and 34-35: SIGINT or SIGTERM arrives; the flag is
\* set, the array reversed in place and its first hook called
ShutdownSignal ==
  /\ UNCHANGED outsideShutdown
  /\ ~isShuttingDown
  /\ shutdownPc = "idle"
  /\ isShuttingDown' = TRUE
  /\ handlers' = Reverse(handlers)
  /\ CallNextHook(Reverse(handlers), 1, hookLog)
  /\ \E sig \in Signals : signals' = Append(signals, sig)
  /\ UNCHANGED <<mainPc, registered>>

\* signals.ts 16-24 without the guard of line 17: a further signal walks
\* the array again
RepeatedSignalUnguarded ==
  /\ UNCHANGED outsideShutdown
  /\ isShuttingDown
  /\ shutdownPc = "awaiting"
  /\ Len(signals) < MaxSignals
  /\ handlers' = Reverse(handlers)
  /\ CallNextHook(Reverse(handlers), 1, hookLog)
  /\ \E sig \in Signals : signals' = Append(signals, sig)
  /\ UNCHANGED <<isShuttingDown, mainPc, registered>>

\* signals.ts 17: a further signal while shutdown() is under way returns
\* at once
RepeatedSignal ==
  /\ UNCHANGED outsideShutdown
  /\ isShuttingDown
  /\ shutdownPc = "awaiting"
  /\ Len(signals) < MaxSignals
  /\ \E sig \in Signals : signals' = Append(signals, sig)
  /\ UNCHANGED <<isShuttingDown, handlers, mainPc, shutdownPc, hookIdx,
                 hookLog, registered>>

\* signals.ts 24 and 22-30: the awaited hook returns or its promise
\* resolves; the next hook is called or the process exits
HookReturns ==
  /\ UNCHANGED outsideShutdown
  /\ shutdownPc = "awaiting"
  /\ CallNextHook(handlers, hookIdx + 1, Settled("returned"))
  /\ UNCHANGED <<isShuttingDown, handlers, mainPc, registered, signals>>

\* a hook failure that is not caught: shutdown() rejects
HookFailsUncaught ==
  /\ UNCHANGED outsideShutdown
  /\ shutdownPc = "awaiting"
  /\ \E how \in HookFailures :
       /\ hookLog' = Settled(how)
       /\ shutdownPc' = "rejected"
  /\ UNCHANGED <<isShuttingDown, handlers, mainPc, registered, hookIdx,
                 signals>>

\* signals.ts 23-27 and 22-30: the hook throws or its promise rejects; the
\* catch logs it; the next hook is called or the process exits
HookFails ==
  /\ UNCHANGED outsideShutdown
  /\ shutdownPc = "awaiting"
  /\ \E how \in HookFailures :
       CallNextHook(handlers, hookIdx + 1, Settled(how))
  /\ UNCHANGED <<isShuttingDown, handlers, mainPc, registered, signals>>

(***************************************************************************)
(* Event streams: the three EventEmitters and handleTimelineSSE,           *)
(* handleThoughtsSSE, handleTasksSSE (src/api/routes.ts, 26-35, 395-494).  *)
(***************************************************************************)
Streams == {"timeline", "thoughts", "tasks"}
Subscribers == 1..NumSubscribers

NoSubscription ==
  [pc |-> "none", stream |-> "none", retry |-> FALSE, from |-> 0, got |-> 0]

InitSSE ==
  /\ listeners = [st \in Streams |-> {}]
  /\ sub = [u \in Subscribers |-> NoSubscription]
  /\ published = [st \in Streams |-> 0]

\* lines 395-403 (430-438, 465-476): a client subscribes; start() registers
\* the once-listener that sends the retry header
Subscribe(u) ==
  /\ UNCHANGED outsideSSE
  /\ sub[u].pc = "none"
  /\ \E st \in Streams :
       /\ sub' = [sub EXCEPT ![u].pc = "started", ![u].stream = st]
       /\ listeners' = [listeners EXCEPT ![st] = @ \cup {[owner |-> u, kind |-> "once"]}]
  /\ UNCHANGED published

\* lines 404-413: the first pull() attaches the listener that forwards
\* the messages
Pull(u) ==
  /\ UNCHANGED outsideSSE
  /\ sub[u].pc = "started"
  /\ sub' = [sub EXCEPT ![u].pc = "attached", ![u].from = published[sub[u].stream]]
  /\ listeners' = [listeners EXCEPT ![sub[u].stream] = @ \cup {[owner |-> u, kind |-> "on"]}]
  /\ UNCHANGED published

\* emitter.emit("sse", data) on the streams of S: every on-listener
\* enqueues the message, every once-listener enqueues the retry header
\* and is removed
Emit(S) ==
  /\ sub' = [u \in Subscribers |->
       IF sub[u].stream \in S
       THEN [sub[u] EXCEPT
               !.got = IF [owner |-> u, kind |-> "on"] \in listeners[sub[u].stream]
                       THEN @ + 1 ELSE @,
               !.retry = IF [owner |-> u, kind |-> "once"] \in listeners[sub[u].stream]
                         THEN TRUE ELSE @]
       ELSE sub[u]]
  /\ listeners' = [st \in Streams |->
       IF st \in S THEN {l \in listeners[st] : l.kind = "on"} ELSE listeners[st]]
  /\ published' = [st \in Streams |-> IF st \in S THEN published[st] + 1
                                      ELSE published[st]]

\* a message is published on one stream (for example tasks.ts 126-143)
Publish(st) ==
  /\ UNCHANGED outsideSSE
  /\ published[st] < MaxMessages
  /\ Emit({st})

\* lines 31-35: the 15 s heartbeat is emitted on all three streams
Heartbeat ==
  /\ UNCHANGED outsideSSE
  /\ \A st \in Streams : published[st] < MaxMessages
  /\ Emit(Streams)

\* lines 414-416: the client goes away; cancel() calls
\* removeAllListeners("sse") on the emitter
Cancel(u) ==
  /\ UNCHANGED outsideSSE
  /\ sub[u].pc \in {"started", "attached"}
  /\ listeners' = [listeners EXCEPT ![sub[u].stream] = {}]
  /\ sub' = [sub EXCEPT ![u].pc = "cancelled"]
  /\ UNCHANGED published

(***************************************************************************)
(* Tool executor: executeToolCalls (src/agent/prompts.ts, 208-287) and     *)
(* ToolRegistry.execute (src/tools/wait.ts, 63-86).  The tools             *)
(* registered are those of Tools; "teleport" is a name the LLM invents.    *)
(* A tool's execute() resolves to a Result with success true or false, or  *)
(* raises.  Times are in seconds on the clock `time`.                      *)
(***************************************************************************)
ToolNames == Tools \cup {"teleport"}
\* what one run of a tool's execute() does; "unknown" when the registry has
\* no tool of that name and nothing is run
ToolOutcomes(name) ==
  IF name \in Tools THEN {"ok", "failure", "throws"} ELSE {"unknown"}

NoResult == [success |-> FALSE, error |-> "none", executionTime |-> 0]

InitExecutor ==
  exec = [pc |-> "idle", calls |-> <<>>, idx |-> 0, attempt |-> 0,
          wakeAt |-> 0, start |-> 0, lastError |-> "none",
          responses |-> <<>>, tries |-> <<>>]

\* registry.execute with the catch clause taken away
RegistryExecuteUncaught(name, outcome, elapsed) ==
  IF name \notin Tools
  THEN [thrown |-> FALSE, error |-> "none",
        value |-> [success |-> FALSE, error |-> "Unknown tool", executionTime |-> 0]]
  ELSE CASE outcome = "ok" ->
              [thrown |-> FALSE, error |-> "none",
               value |-> [success |-> TRUE, error |-> "none", executionTime |-> elapsed]]
         [] outcome = "failure" ->
              [thrown |-> FALSE, error |-> "none",
               value |-> [success |-> FALSE, error |-> "tool error", executionTime |-> elapsed]]
         [] OTHER ->
              [thrown |-> TRUE, error |-> "err.message", value |-> NoResult]

\* ToolRegistry.execute(name, args): how the promise it returns settles.
\* Unknown name: a failure Result without executionTime (0 here, as the
\* executor reads it with ?? 0).  Otherwise the tool's Result with the
\* elapsed time, or, from the catch clause, a failure Result carrying the
\* error's message.
RegistryExecute(name, outcome, elapsed) ==
  IF name \notin Tools
  THEN [thrown |-> FALSE, error |-> "none",
        value |-> [success |-> FALSE, error |-> "Unknown tool", executionTime |-> 0]]
  ELSE CASE outcome = "ok" ->
              [thrown |-> FALSE, error |-> "none",
               value |-> [success |-> TRUE, error |-> "none", executionTime |-> elapsed]]
         [] outcome = "failure" ->
              [thrown |-> FALSE, error |-> "none",
               value |-> [success |-> FALSE, error |-> "tool error", executionTime |-> elapsed]]
         [] OTHER ->
              [thrown |-> FALSE, error |-> "none",
               value |-> [success |-> FALSE, error |-> "err.message", executionTime |-> elapsed]]

\* lines 208-212: executeToolCalls(calls) is called with a batch of calls
ExecuteToolCallsBegin ==
  /\ UNCHANGED outsideExecutor
  /\ exec.pc = "idle"
  /\ \E n \in 1..MaxBatch : \E calls \in [1..n -> ToolNames] :
       exec' = [exec EXCEPT !.pc = "attempt", !.calls = calls, !.idx = 1,
                            !.tries = [i \in 1..n |-> <<>>]]
  /\ UNCHANGED driverVars

\* lines 238-240 (wait.ts 63-75): an attempt calls registry.execute, which looks the tool
\* up, notes the start time and calls the tool; a retry starts only when
\* Bun.sleep(retryDelay) has resolved
AttemptBegin ==
  /\ UNCHANGED outsideExecutor
  /\ exec.pc = "attempt"
  /\ time >= exec.wakeAt
  /\ exec' = [exec EXCEPT !.pc = "running", !.start = time]
  /\ UNCHANGED driverVars

\* lines 260-275: the call is over: push its response, go to the next call
\* or return the responses
PushResponse(e, result) ==
  [e EXCEPT !.responses = Append(@, [name |-> e.calls[e.idx], response |-> result]),
            !.attempt = 0, !.wakeAt = 0, !.lastError = "none",
            !.idx = IF e.idx = Len(e.calls) THEN 0 ELSE e.idx + 1,
            !.pc = IF e.idx = Len(e.calls) THEN "returned" ELSE "attempt"]

\* lines 240-270: the promise of registry.execute settles.  A value ends
\* the retry loop; an exception is kept in lastError and, while
\* attempt < maxRetries, the loop sleeps 2000 * (attempt + 1) ms and tries
\* again; after the last attempt the Result is "Failed after 3 attempts".
AttemptSettles ==
  /\ UNCHANGED outsideExecutor
  /\ exec.pc = "running"
  /\ \E outcome \in ToolOutcomes(exec.calls[exec.idx]) :
       LET settled == RegistryExecute(exec.calls[exec.idx], outcome, time - exec.start)
           e == [exec EXCEPT !.tries[exec.idx] =
                   Append(@, [at |-> exec.start, outcome |-> outcome])]
       IN exec' =
            IF ~settled.thrown
            THEN PushResponse(e, settled.value)
            ELSE IF exec.attempt < maxRetries
            THEN [e EXCEPT !.lastError = settled.error,
                           !.wakeAt = time + 2 * (exec.attempt + 1),
                           !.attempt = @ + 1,
                           !.pc = "attempt"]
            ELSE PushResponse(e, [success |-> FALSE,
                                  error |-> "Failed after 3 attempts",
                                  executionTime |-> 0])
  /\ UNCHANGED driverVars

(***************************************************************************)
(* Configuration store (src/db/config.ts, 7-166).  Values are strings.     *)
(* The keys tried are three keys with a rule and one without; getDB() and  *)
(* the SQL statements are taken to succeed.                                *)
(***************************************************************************)
ConfigKeys == {"max_iterations", "thinking_budget", "verbose", "custom_key"}
ConfigValues == {"0", "1", "1001", "abc", "", "true"}
NaN == -999999

\* DEFAULTS; custom_key has none (undefined, written "undefined")
DEFAULTS(key) ==
  CASE key = "max_iterations" -> "100"
    [] key = "thinking_budget" -> "10000"
    [] key = "verbose" -> "false"
    [] OTHER -> "undefined"

\* VALIDATION_RULES; type "none" for a key without a rule
VALIDATION_RULES(key) ==
  CASE key = "max_iterations" -> [type |-> "number", min |-> 1, max |-> 1000]
    [] key = "thinking_budget" -> [type |-> "number", min |-> 0, max |-> 100000]
    [] key = "verbose" -> [type |-> "boolean", min |-> 0, max |-> 0]
    [] OTHER -> [type |-> "none", min |-> 0, max |-> 0]

\* Number(value) of JavaScript on the strings used here: the empty string
\* converts to 0, a string that is no numeral to NaN
Number(value) ==
  CASE value = "0" -> 0
    [] value = "1" -> 1
    [] value = "1001" -> 1001
    [] value = "100" -> 100
    [] value = "10000" -> 10000
    [] value = "" -> 0
    [] OTHER -> NaN

\* String(n) for the bounds of the rules
String(n) ==
  CASE n = 0 -> "0"
    [] n = 1 -> "1"
    [] n = 1000 -> "1000"
    [] n = 100000 -> "100000"
    [] OTHER -> "?"

\* validateValue(key, value); sanitized is "undefined" where the code
\* returns none
validateValue(key, value) ==
  LET rule == VALIDATION_RULES(key)
      num == Number(value)
  IN CASE rule.type = "number" ->
            IF num = NaN THEN [valid |-> FALSE, sanitized |-> "undefined"]
            ELSE IF num < rule.min
            THEN [valid |-> FALSE, sanitized |-> String(rule.min)]
            ELSE IF num > rule.max
            THEN [valid |-> FALSE, sanitized |-> String(rule.max)]
            ELSE [valid |-> TRUE, sanitized |-> "undefined"]
       [] rule.type = "boolean" ->
            IF value \notin {"true", "false", "1", "0"}
            THEN [valid |-> FALSE, sanitized |-> "false"]
            ELSE [valid |-> TRUE, sanitized |-> "undefined"]
       [] OTHER -> [valid |-> TRUE, sanitized |-> "undefined"]

\* get(key) on the table c
Get(c, key) ==
  LET value == IF c[key] # <<>> THEN c[key][1] ELSE DEFAULTS(key)
      validation == validateValue(key, value)
  IN IF value # "undefined" /\ ~validation.valid
     THEN IF validation.sanitized # "undefined" THEN validation.sanitized
          ELSE DEFAULTS(key)
     ELSE value

InitConfig ==
  /\ config = [key \in ConfigKeys |-> <<>>]
  /\ cfgCall = [op |-> "none", key |-> "none", value |-> "none", outcome |-> "none"]
  /\ written = [key \in ConfigKeys |-> <<>>]

\* get(key): the value returned is kept in cfgCall.value
ConfigGet(key) ==
  /\ UNCHANGED outsideConfig
  /\ cfgCall' = [op |-> "get", key |-> key, value |-> Get(config, key),
                 outcome |-> "returned"]
  /\ UNCHANGED <<config, written>>

\* set(key, value) storing whatever it is given
ConfigSetUnvalidated(key, value) ==
  /\ UNCHANGED outsideConfig
  /\ config' = [config EXCEPT ![key] = <<value>>]
  /\ written' = [written EXCEPT ![key] = <<value>>]
  /\ cfgCall' = [op |-> "set", key |-> key, value |-> value, outcome |-> "returned"]

\* lines 139-156: set(key, value) with a value that passes validateValue:
\* INSERT .. ON CONFLICT(key) DO UPDATE
ConfigSet(key, value) ==
  /\ UNCHANGED outsideConfig
  /\ validateValue(key, value).valid
  /\ config' = [config EXCEPT ![key] = <<value>>]
  /\ written' = [written EXCEPT ![key] = <<value>>]
  /\ cfgCall' = [op |-> "set", key |-> key, value |-> value, outcome |-> "returned"]

\* set(key, value) that stores the sanitized value in place of a bad one
ConfigSetSanitizes(key, value) ==
  /\ UNCHANGED outsideConfig
  /\ ~validateValue(key, value).valid
  /\ config' = [config EXCEPT ![key] = <<validateValue(key, value).sanitized>>]
  /\ cfgCall' = [op |-> "set", key |-> key, value |-> value, outcome |-> "returned"]
  /\ UNCHANGED written

\* lines 141-145: set(key, value) with a value that fails validateValue
\* throws before the table is touched
ConfigSetThrows(key, value) ==
  /\ UNCHANGED outsideConfig
  /\ ~validateValue(key, value).valid
  /\ cfgCall' = [op |-> "set", key |-> key, value |-> value, outcome |-> "threw"]
  /\ UNCHANGED <<config, written>>

\* lines 158-169: remove(key) deletes the row, except for the critical keys
ConfigRemove(key) ==
  /\ UNCHANGED outsideConfig
  /\ IF key \in {"max_iterations", "tool_timeout_ms"}
     THEN /\ cfgCall' = [op |-> "remove", key |-> key, value |-> "none",
                         outcome |-> "threw"]
          /\ UNCHANGED <<config, written>>
     ELSE /\ cfgCall' = [op |-> "remove", key |-> key, value |-> "none",
                         outcome |-> "returned"]
          /\ config' = [config EXCEPT ![key] = <<>>]
          /\ written' = [written EXCEPT ![key] = <<>>]

(***************************************************************************)
(* Survival ledger: applyHourlyDebt (src/db/survival.ts, 12-58), called    *)
(* at the head of every cycle of the driver (consciousness.ts 1168-1171).  *)
(* The clock counts half hours; diffHours is wallClock difference / 2.     *)
(***************************************************************************)
InitLedger ==
  /\ ledger = <<>>
  /\ wallClock = 0

LedgerTick ==
  /\ UNCHANGED outsideLedger
  /\ wallClock < MaxHalfHours
  /\ wallClock' = wallClock + 1
  /\ UNCHANGED ledger

\* lines 12-17: INSERT INTO survival_ledger (amount, reason); created_at
\* defaults to the time of the insert
recordTransaction(l, amount, reason) ==
  Append(l, [amount |-> amount, reason |-> reason, created_at |-> wallClock])

\* lines 35-39: the newest row whose reason is 'System Maintenance (Hourly)'
LastDebt(l) ==
  LET hourly == {i \in 1..Len(l) : l[i].reason = "System Maintenance (Hourly)"}
  IN IF hourly = {} THEN <<>>
     ELSE <<l[CHOOSE i \in hourly : \A j \in hourly : j <= i]>>

\* lines 31-58: applyHourlyDebt()
ApplyHourlyDebt ==
  /\ UNCHANGED outsideLedger
  /\ Len(ledger) < MaxLedger
  /\ LET lastDebt == LastDebt(ledger) IN
       IF lastDebt = <<>>
       THEN ledger' = recordTransaction(ledger, -HOURLY_DEBT,
                                        "System Maintenance (Initial)")
       ELSE LET diffHalfHours == wallClock - lastDebt[1].created_at IN
              IF diffHalfHours >= 2
              THEN ledger' = recordTransaction(ledger,
                                -((diffHalfHours * HOURLY_DEBT) \div 2),
                                "System Maintenance (Hourly)")
              ELSE UNCHANGED ledger
  /\ UNCHANGED wallClock

(***************************************************************************)
(* Knowledge store: saveKnowledge and pruneKnowledge (growth.ts, found in  *)
(* src/unnamed/part_003, 13-124), with the vector extension loaded         *)
(* (isVectorEnabled() true).  saveKnowledge is asynchronous: it inserts    *)
(* the row, awaits embed(content) and only then inserts the vector;        *)
(* pruneKnowledge is synchronous.  Rows created in the same second are     *)
(* ordered by id.                                                          *)
(***************************************************************************)
Savers == 1..NumSavers
Importances == {5, 8}

InitKnowledge ==
  /\ knowledge = {}
  /\ knowledge_vec = {}
  /\ saveCall = [s \in Savers |-> [pc |-> "idle", id |-> 0]]
  /\ lastInsertRowid = 0

\* lines 19-33: INSERT INTO knowledge, id = lastInsertRowid, then
\* await embed(params.content)
SaveKnowledgeInsert(s) ==
  /\ UNCHANGED outsideKnowledge
  /\ saveCall[s].pc = "idle"
  /\ lastInsertRowid < MaxKnowledgeId
  /\ \E importance \in Importances :
       knowledge' = knowledge \cup
                      {[id |-> lastInsertRowid + 1, importance |-> importance]}
  /\ lastInsertRowid' = lastInsertRowid + 1
  /\ saveCall' = [saveCall EXCEPT ![s] = [pc |-> "embedding",
                                          id |-> lastInsertRowid + 1]]
  /\ UNCHANGED knowledge_vec

\* lines 33-55: embed resolves: INSERT INTO knowledge_vec (id, vector), the
\* timeline event, return id
SaveKnowledgeVector(s) ==
  /\ UNCHANGED outsideKnowledge
  /\ saveCall[s].pc = "embedding"
  /\ knowledge_vec' = knowledge_vec \cup {saveCall[s].id}
  /\ saveCall' = [saveCall EXCEPT ![s] = [pc |-> "idle", id |-> 0]]
  /\ UNCHANGED <<knowledge, lastInsertRowid>>

\* lines 42-44: embed (or the insert) fails: the catch clause logs, the row
\* stays without a vector
SaveKnowledgeVectorFails(s) ==
  /\ UNCHANGED outsideKnowledge
  /\ saveCall[s].pc = "embedding"
  /\ saveCall' = [saveCall EXCEPT ![s] = [pc |-> "idle", id |-> 0]]
  /\ UNCHANGED <<knowledge, knowledge_vec, lastInsertRowid>>

\* SELECT id FROM knowledge ORDER BY importance ASC, created_at ASC LIMIT n
LowestIds(n) ==
  { k.id : k \in
      { k \in knowledge :
          Cardinality({ o \in knowledge :
                          \/ o.importance < k.importance
                          \/ (o.importance = k.importance /\ o.id < k.id) }) < n } }

\* lines 94-124: pruneKnowledge(), called when the table is over capacity
PruneKnowledge ==
  /\ UNCHANGED outsideKnowledge
  /\ Cardinality(knowledge) > KNOWLEDGE_MAX_ENTRIES
  /\ LET toDelete == Cardinality(knowledge) - KNOWLEDGE_MAX_ENTRIES IN
       /\ knowledge_vec' = knowledge_vec \ LowestIds(toDelete)
       /\ knowledge' = { k \in knowledge : k.id \notin LowestIds(toDelete) }
  /\ UNCHANGED <<saveCall, lastInsertRowid>>

(***************************************************************************)
(* One cycle of the consciousness loop: the body of the while loop of      *)
(* startConsciousnessLoop (src/agent/consciousness.ts, 1162-1296) and      *)
(* executeAutonomousAction (1440-1595).  The loop is followed from its     *)
(* condition on; the start-up and the interrupted branch of lines          *)
(* 1163-1166 are followed in the section of the driver above.              *)
(***************************************************************************)
\* rows that earlier runs of the process have left in session
\* 'autonomous-learning': six completed agent runs
StoredHistory == [i \in 1..12 |-> IF i % 2 = 1 THEN "user" ELSE "model"]

\* DELETE FROM conversations WHERE session_id = ? AND id NOT IN
\* (SELECT id ... ORDER BY created_at DESC LIMIT keepLast)
pruneConversationHistory(c, keepLast) ==
  SubSeq(c, Len(c) - Min(Len(c), keepLast) + 1, Len(c))

\* rows one agent run of executeAutonomousAction saves (agent.ts, 259-260)
SavedRows == {<<>>, <<"user">>, <<"user", "model">>}

InitCycle ==
  /\ investigationCount = 0
  /\ autonomous = StoredHistory
  /\ cyc = [pc |-> "check", n |-> 0, startCount |-> 0,
            isInvestigationPhase |-> TRUE, detected |-> FALSE,
            forceAction |-> FALSE, actionCompleted |-> FALSE,
            trimmed |-> FALSE, failed |-> FALSE, afterFailure |-> FALSE,
            sleep |-> 0]

\* lines 1168-1249 with the branch of lines 1223-1242 leaving
\* investigationCount alone
CycleReflectKeepsCount ==
  /\ UNCHANGED outsideCycle
  /\ cyc.pc = "check"
  /\ ~isShuttingDown
  /\ cyc.n < MaxCycles
  /\ \E detected \in BOOLEAN :
       /\ autonomous' = IF detected
                        THEN pruneConversationHistory(autonomous, 0)
                        ELSE autonomous
       /\ UNCHANGED investigationCount
       /\ cyc' = [pc |-> "reflecting", n |-> cyc.n + 1,
                  startCount |-> investigationCount,
                  isInvestigationPhase |->
                    investigationCount < MAX_INVESTIGATION_CYCLES,
                  detected |-> detected,
                  forceAction |-> FALSE, actionCompleted |-> FALSE,
                  trimmed |-> FALSE, failed |-> FALSE,
                  afterFailure |-> cyc.failed, sleep |-> 0]

\* lines 1168-1249: a cycle begins.  The phase of the prompt is chosen
\* from investigationCount (1174); isRepeating || isFaking is an input
\* (detected); if set, the session's rows are deleted and
\* investigationCount = MAX_INVESTIGATION_CYCLES (1223-1242); then the
\* reflection call localLLM.chat is awaited (1249)
CycleReflect ==
  /\ UNCHANGED outsideCycle
  /\ cyc.pc = "check"
  /\ ~isShuttingDown
  /\ cyc.n < MaxCycles
  /\ \E detected \in BOOLEAN :
       /\ autonomous' = IF detected
                        THEN pruneConversationHistory(autonomous, 0)
                        ELSE autonomous
       /\ investigationCount' = IF detected
                                THEN MAX_INVESTIGATION_CYCLES
                                ELSE investigationCount
       /\ cyc' = [pc |-> "reflecting", n |-> cyc.n + 1,
                  startCount |-> investigationCount,
                  isInvestigationPhase |->
                    investigationCount < MAX_INVESTIGATION_CYCLES,
                  detected |-> detected,
                  forceAction |-> FALSE, actionCompleted |-> FALSE,
                  trimmed |-> FALSE, failed |-> FALSE,
                  afterFailure |-> cyc.failed, sleep |-> 0]

\* lines 1256-1270: the reflection is back; shouldAct returns true
\* (1395-1398), investigationCount++, forceAction is computed and
\* executeAutonomousAction is awaited
CycleReflectionReturns ==
  /\ UNCHANGED outsideCycle
  /\ cyc.pc = "reflecting"
  /\ investigationCount' = investigationCount + 1
  /\ cyc' = [cyc EXCEPT !.pc = "acting",
                        !.forceAction =
                          investigationCount + 1 >= MAX_INVESTIGATION_CYCLES]
  /\ UNCHANGED autonomous

\* lines 1270-1291: executeAutonomousAction returns actionCompleted, its
\* agent run has saved some rows; the counter is reset on completion
\* (1273-1276); the session is pruned to 12 rows if
\* investigationCount % 5 === 0 (1284-1288); sleep 2 s
CycleActionReturns ==
  /\ UNCHANGED outsideCycle
  /\ cyc.pc = "acting"
  /\ \E actionCompleted \in BOOLEAN, saved \in SavedRows :
       LET count == IF actionCompleted THEN 0 ELSE investigationCount
           rows == autonomous \o saved
       IN /\ investigationCount' = count
          /\ autonomous' = IF count % 5 = 0
                           THEN pruneConversationHistory(rows, 12)
                           ELSE rows
          /\ cyc' = [cyc EXCEPT !.pc = "sleeping",
                                !.actionCompleted = actionCompleted,
                                !.trimmed = (count % 5 = 0),
                                !.sleep = SLEEP_CYCLE]

\* lines 1292-1295 with the exception leaving startConsciousnessLoop
CycleFailsEscapes ==
  /\ UNCHANGED outsideCycle
  /\ cyc.pc \in {"reflecting", "acting"}
  /\ cyc' = [cyc EXCEPT !.pc = "ended", !.failed = TRUE]
  /\ UNCHANGED <<investigationCount, autonomous>>

\* lines 1292-1295: a step of the cycle throws: the reflection call, the
\* agent run of executeAutonomousAction (which may have saved its user
\* row), or the clean-up after an action that has returned; sleep 10 s
CycleFails ==
  /\ UNCHANGED outsideCycle
  /\ cyc.pc \in {"reflecting", "acting"}
  /\ \E actionCompleted \in BOOLEAN, saved \in {<<>>, <<"user">>} :
       /\ cyc.pc = "reflecting" => ~actionCompleted /\ saved = <<>>
       /\ investigationCount' = IF actionCompleted THEN 0
                                ELSE investigationCount
       /\ autonomous' = autonomous \o saved
       /\ cyc' = [cyc EXCEPT !.pc = "sleeping",
                             !.actionCompleted = actionCompleted,
                             !.failed = TRUE,
                             !.sleep = SLEEP_ERROR]

\* Bun.sleep resolves (1291, 1294), back at the loop condition
CycleWake ==
  /\ UNCHANGED outsideCycle
  /\ cyc.pc = "sleeping"
  /\ cyc' = [cyc EXCEPT !.pc = "check"]
  /\ UNCHANGED <<investigationCount, autonomous>>

\* line 1162: the loop ends when shutdown has begun
CycleLoopEnd ==
  /\ UNCHANGED outsideCycle
  /\ cyc.pc = "check"
  /\ isShuttingDown
  /\ cyc' = [cyc EXCEPT !.pc = "ended"]
  /\ UNCHANGED <<investigationCount, autonomous>>

(***************************************************************************)
(* The conversation rows of one chat session over its agent runs:          *)
(* getConversationHistory and saveConversation (src/db/tasks.ts, 276-289)  *)
(* as runAgent calls them (src/agent/agent.ts, 212-217 and 254-270).  The  *)
(* rows of a chat session are never pruned.  A row is its AUTOINCREMENT id *)
(* and its role.                                                           *)
(***************************************************************************)
InitHistory ==
  /\ sessionRows = <<>>
  /\ run = [pc |-> "idle", history |-> <<>>]

\* agent.ts 212-217: a run of the session begins and loads its history
RunAgentLoads ==
  /\ UNCHANGED outsideHistory
  /\ run.pc = "idle"
  /\ Len(sessionRows) < 2 * MaxRuns
  /\ run' = [pc |-> "running",
             history |-> getConversationHistory(sessionRows)]
  /\ UNCHANGED sessionRows

\* agent.ts 254-270: the run completes and saves its user and model turns
RunAgentCompletes ==
  /\ UNCHANGED outsideHistory
  /\ run.pc = "running"
  /\ sessionRows' =
       saveConversation(saveConversation(sessionRows,
                          [id |-> Len(sessionRows) + 1, role |-> "user"]),
                        [id |-> Len(sessionRows) + 2, role |-> "model"])
  /\ run' = [run EXCEPT !.pc = "idle"]

\* agent.ts 325-359: the run ends without completing (iteration limit,
\* abort, error) and saves no turn
RunAgentFails ==
  /\ UNCHANGED outsideHistory
  /\ run.pc = "running"
  /\ run' = [run EXCEPT !.pc = "idle"]
  /\ UNCHANGED sessionRows

(***************************************************************************)
(* Specifications.                                                         *)
(***************************************************************************)
Init ==
  /\ InitAgent /\ InitChat /\ InitBucket /\ InitDetector /\ InitDriver
  /\ InitShutdown /\ InitSSE /\ InitExecutor /\ InitConfig
  /\ InitLedger /\ InitKnowledge /\ InitCycle /\ InitHistory

Next ==
  \/ Abort \/ Shutdown
  \/ CreateTask \/ CreateTaskThrows
  \/ AssembleContext \/ AssembleContextThrows
  \/ LoadHistory \/ LoadHistoryThrows
  \/ LoopEnter \/ IncrementIterationsThrows \/ LoopExit
  \/ LLMReturn \/ LLMThrows
  \/ Complete \/ CompleteTaskThrows \/ SaveConversationThrows
  \/ EmitToolCall
  \/ ExecuteToolCallsReturn \/ ExecuteToolCallsThrows
  \/ EmitToolResult \/ LogToolCallThrows
  \/ StuckTerminate \/ MarkStuckThrows \/ StuckWarn \/ NotStuckContinue
  \/ Exit \/ ExitFailTaskThrows
  \/ Catch \/ CatchFailTaskThrows

Spec == Init /\ [][Next]_vars

NextChat ==
  \/ \E r \in Requests : ChatGuard(r)
  \/ \E r \in Requests : ChatBadRequest(r)
  \/ \E r \in Requests : ChatAccept(r)
  \/ \E r \in Requests : ChatStreamEnd(r)

SpecChat == Init /\ [][NextChat]_vars

NextBucket ==
  \/ NewRateLimiter
  \/ Tick
  \/ \E c \in Callers : AcquireNow(c)
  \/ \E c \in Callers : AcquireWait(c)
  \/ \E c \in Callers : AcquireWake(c)
  \/ \E c \in Callers : TryAcquire(c)

SpecBucket == Init /\ [][NextBucket]_vars

NextDetector ==
  \/ DetectorNew
  \/ DetectorRecord
  \/ DetectorCheck
  \/ DetectorReset

SpecDetector == Init /\ [][NextDetector]_vars

NextDriver ==
  \/ DriverTick
  \/ \E s \in Starts : StartConsciousnessLoop(s)
  \/ \E s \in Starts : GenesisDone(s)
  \/ \E s \in Starts : StartupThrows(s)
  \/ \E s \in Starts : LoopEnd(s)
  \/ \E s \in Starts : SleepInterrupted(s)
  \/ \E s \in Starts : CycleBegin(s)
  \/ \E s \in Starts : CycleEnd(s)
  \/ \E s \in Starts : CycleThrows(s)
  \/ \E s \in Starts : Wake(s)
  \/ InterruptLoop
  \/ \E i \in 1..NumLeases : LeaseTimerFires(i)
  \/ Shutdown

SpecDriver == Init /\ [][NextDriver]_vars

NextShutdown ==
  \/ MainRegisters
  \/ StartServerRegisters
  \/ ShutdownSignal
  \/ RepeatedSignal
  \/ HookReturns
  \/ HookFails

SpecShutdown == Init /\ [][NextShutdown]_vars

\* an awaited hook settles, and the continuation of shutdown() then runs
SpecShutdownFair == SpecShutdown /\ WF_vars(HookReturns \/ HookFails)

NextSSE ==
  \/ \E u \in Subscribers : Subscribe(u)
  \/ \E u \in Subscribers : Pull(u)
  \/ \E st \in Streams : Publish(st)
  \/ Heartbeat
  \/ \E u \in Subscribers : Cancel(u)

SpecSSE == Init /\ [][NextSSE]_vars

NextExecutor ==
  \/ DriverTick
  \/ ExecuteToolCallsBegin
  \/ AttemptBegin
  \/ AttemptSettles

SpecExecutor == Init /\ [][NextExecutor]_vars

NextConfig ==
  \/ \E key \in ConfigKeys : ConfigGet(key)
  \/ \E key \in ConfigKeys : \E value \in ConfigValues : ConfigSet(key, value)
  \/ \E key \in ConfigKeys : \E value \in ConfigValues : ConfigSetThrows(key, value)
  \/ \E key \in ConfigKeys : ConfigRemove(key)

SpecConfig == Init /\ [][NextConfig]_vars

NextLedger ==
  \/ LedgerTick
  \/ ApplyHourlyDebt

SpecLedger == Init /\ [][NextLedger]_vars

NextKnowledge ==
  \/ \E s \in Savers : SaveKnowledgeInsert(s)
  \/ \E s \in Savers : SaveKnowledgeVector(s)
  \/ \E s \in Savers : SaveKnowledgeVectorFails(s)
  \/ PruneKnowledge

SpecKnowledge == Init /\ [][NextKnowledge]_vars

NextCycle ==
  \/ CycleReflect
  \/ CycleReflectionReturns
  \/ CycleActionReturns
  \/ CycleFails
  \/ CycleWake
  \/ CycleLoopEnd
  \/ Shutdown

SpecCycle == Init /\ [][NextCycle]_vars

NextHistory ==
  \/ RunAgentLoads
  \/ RunAgentCompletes
  \/ RunAgentFails

SpecHistory == Init /\ [][NextHistory]_vars

(***************************************************************************)
(* Properties of one agent run (specification Spec).                       *)
(***************************************************************************)
IsTerminal(e) == e.type \in {"done", "error"}
\* the run ended and nothing was raised, except possibly the StuckError
NothingFailed == err \in {"none", "max iterations"} /\ ~thrown

\* one step of an automaton for the regular expression
\*   (thinking | text | tool_call+ tool_result+ stuck_warning?)* (done | error)
RegexStep(q, t) ==
  CASE q \in {"start", "results"} /\ t \in {"thinking", "text"} -> "start"
    [] q \in {"start", "calls", "results"} /\ t = "tool_call"   -> "calls"
    [] q \in {"calls", "results"} /\ t = "tool_result"          -> "results"
    [] q = "results" /\ t = "stuck_warning"                     -> "start"
    [] q \in {"start", "results"} /\ t \in {"done", "error"}    -> "final"
    [] OTHER                                                    -> "reject"

RECURSIVE RegexRun(_, _)
RegexRun(s, q) ==
  IF s = <<>> THEN q ELSE RegexRun(Tail(s), RegexStep(q, Head(s).type))

MatchesEventRegex(s) == RegexRun(s, "start") = "final"

\* C1: every run that ends has emitted an event sequence matching
\* (thinking | text | tool_call+ tool_result+ stuck_warning?)* (done | error);
\* stated here for the runs in which no step fails
C1_EventSequence ==
  (pc = "ended" /\ NothingFailed) => MatchesEventRegex(events)

\* positions of the events of one type and tool name, in order
Positions(type, name) ==
  {i \in 1..Len(events) : events[i].type = type /\ events[i].val = name}
Rank(S, i) == Cardinality({j \in S : j <= i})

\* every tool_call emitted so far has its own tool_result of the same name
\* after it
ToolCallsAnswered ==
  \A n \in Tools :
    /\ Cardinality(Positions("tool_call", n)) = Cardinality(Positions("tool_result", n))
    /\ \A i \in Positions("tool_call", n) :
         \E j \in Positions("tool_result", n) :
           /\ j > i
           /\ Rank(Positions("tool_result", n), j) = Rank(Positions("tool_call", n), i)

\* C2: for every tool_call exactly one tool_result with the same tool name is
\* emitted after it and before the next LLM call (or the end of the run),
\* also when a cancel is signalled while the batch executes; stated for the
\* runs in which no step fails
C2_ToolCallAnswered ==
  (pc \in {"llm", "ended"} /\ NothingFailed) => ToolCallsAnswered

\* C3: done or error is terminal: no event follows a done or an error, and a
\* run that ends has emitted exactly one of them, as its last event
C3_TerminalEvent ==
  /\ \A i \in 1..(Len(events) - 1) : ~IsTerminal(events[i])
  /\ (pc = "ended" /\ ~thrown) => (Len(events) > 0 /\ IsTerminal(Last(events)))

\* C4: once a Task's status has left running, no step changes it again;
\* stated for the steps of runs in which nothing but the StuckError is raised
C4_TerminalStatusImmutable ==
  [][\A id \in DOMAIN tasks :
       (tasks[id].status # "running" /\ err' \in {"none", "max iterations"})
         => tasks'[id].status = tasks[id].status]_vars

\* C5: when check() returned shouldTerminate and the run marked the Task
\* stuck, the Task's status is stuck after the run has ended
C5_StuckPersists ==
  (pc = "ended" /\ terminateVerdict /\ err = "max iterations")
    => tasks[taskId].status = "stuck"

\* C6: with an LLM that asks for tool calls on every turn (no cancel, no
\* shutdown, no failing step) the run ends after at most maxIterations loop
\* iterations and its last two events are stuck_warning, error
C6_AlwaysToolCalls ==
  (pc = "ended" /\ ~finalAnswer /\ ~aborted /\ ~isShuttingDown /\ NothingFailed)
    => /\ tasks[taskId].iterations <= detector.maxIterations
       /\ Len(events) >= 2
       /\ events[Len(events) - 1].type = "stuck_warning"
       /\ events[Len(events)].type = "error"

\* C7: no exception reaches the consumer of the stream unless the run has
\* emitted an error event before
C7_ErrorBeforeThrow ==
  thrown => \E i \in 1..Len(events) : events[i].type = "error"

\* C8 as claimed: when a step of the loop raises, the run marks the Task
\* failed with the message, yields error, and then propagates the exception
C8_Propagates ==
  (pc = "ended" /\ err \in InTryErrors)
    => /\ tasks[taskId].status = "failed" /\ tasks[taskId].result = err
       /\ Len(events) > 0 /\ Last(events) = Ev("error", err)
       /\ thrown

\* C8 amended: when a step inside the try block raises, the run calls
\* failTask with the message; when that write succeeds the Task is failed
\* with the message, error(message) is the last event and the stream ends
\* without propagating the exception; only when that failTask itself raises
\* does an exception leave the generator
C8_ErrorEventNoRethrow ==
  (pc = "ended" /\ err \in InTryErrors)
    => IF tasks[taskId].status = "failed" /\ tasks[taskId].result = err
       THEN ~thrown /\ Len(events) > 0 /\ Last(events) = Ev("error", err)
       ELSE thrown

\* C8 witness: the LLM call failed, the Task is failed and error was yielded
C8_Witness ==
  /\ pc = "ended" /\ err = "llm failed" /\ ~thrown
  /\ tasks[taskId].status = "failed" /\ tasks[taskId].result = "llm failed"
  /\ Last(events) = Ev("error", "llm failed")

StopRequested == aborted \/ isShuttingDown
Stopped(r) == Ev("done", "Agent stopped: " \o r \o ".")

C10_AtMostMaxChats == activeChatCount <= MAX_CONCURRENT_CHATS

(***************************************************************************)
(* Properties of the token bucket (specification SpecBucket).              *)
(***************************************************************************)
\* C11: when acquire / tryAcquire calls on one bucket overlap, the tokens
\* granted never exceed the tokens that were available at construction
\* plus those refilled, and the token count never goes below zero.
C11_NoOverdraft ==
  limiter.constructed =>
    /\ grantedTokens <= limiter.maxTokens + refilledTokens
    /\ limiter.tokens >= 0

(***************************************************************************)
(* Properties of the stuck detector (specification SpecDetector).          *)
(***************************************************************************)
\* the value check() has just returned
Verdict == checked[1]
\* the last 3 records exist and agree in tool name and input fingerprint
SameCallTail ==
  /\ Len(sd.history) >= 3
  /\ \A i \in (Len(sd.history) - 2)..Len(sd.history) :
       /\ sd.history[i].toolName = sd.history[Len(sd.history)].toolName
       /\ sd.history[i].inputHash = sd.history[Len(sd.history)].inputHash
\* the last 10 records exist and agree in tool name
SingleToolTail ==
  /\ Len(sd.history) >= 10
  /\ \A i \in (Len(sd.history) - 9)..Len(sd.history) :
       sd.history[i].toolName = sd.history[Len(sd.history)].toolName
\* the constructor argument clamped to [1, 1000]
ClampedMax ==
  IF sdArg[1] < 1 THEN 1 ELSE IF sdArg[1] > 1000 THEN 1000 ELSE sdArg[1]

\* C12: whenever the last 3 recorded calls have the same tool name and the
\* same input fingerprint and the iteration counter is below the configured
\* max, check() returns isStuck = true with shouldTerminate = false.
C12_SameInputStuck ==
  (checked # <<>> /\ SameCallTail /\ sd.iteration < sd.maxIterations)
    => (Verdict.isStuck /\ ~Verdict.shouldTerminate)

C12_Witness ==
  /\ checked # <<>>
  /\ SameCallTail
  /\ sd.iteration < sd.maxIterations
  /\ Verdict.message = "same input"

\* C13: whenever the last 10 recorded calls all have the same tool name,
\* whatever their inputs, and the iteration counter is below the configured
\* max, check() returns isStuck = true with shouldTerminate = false.
C13_SingleToolStuck ==
  (checked # <<>> /\ SingleToolTail /\ sd.iteration < sd.maxIterations)
    => (Verdict.isStuck /\ ~Verdict.shouldTerminate)

C13_Witness ==
  /\ checked # <<>>
  /\ SingleToolTail
  /\ ~SameCallTail
  /\ sd.iteration < sd.maxIterations
  /\ Verdict.message = "single tool"

\* C14: the configured max is the constructor argument clamped to [1, 1000],
\* and whenever the iteration counter is at or above it check() returns
\* isStuck = true and shouldTerminate = true, also when the same-input or
\* the single-tool rule applies.
C14_MaxIterationsFirst ==
  sdArg # <<>> =>
    /\ sd.maxIterations = ClampedMax
    /\ (checked # <<>> /\ sd.iteration >= ClampedMax)
         => (Verdict.isStuck /\ Verdict.shouldTerminate)

C14_Witness ==
  /\ checked # <<>>
  /\ sdArg = <<0>>
  /\ sd.iteration >= ClampedMax
  /\ SameCallTail
  /\ Verdict.shouldTerminate

\* C15: check() returns isStuck = false and shouldTerminate = false whenever
\* the iteration counter is below the max, the last 3 records are not all
\* identical in name and fingerprint and the last 10 records are not all of
\* one tool; so never with fewer than 3 records or alternating tools.
C15_NotStuckOtherwise ==
  (checked # <<>> /\ sd.iteration < sd.maxIterations
     /\ ~SameCallTail /\ ~SingleToolTail)
    => (~Verdict.isStuck /\ ~Verdict.shouldTerminate)

C15_Witness ==
  /\ checked # <<>>
  /\ sd.iteration < sd.maxIterations
  /\ Len(sd.history) >= 10
  /\ ~SameCallTail
  /\ ~SingleToolTail
  /\ ~Verdict.isStuck

(***************************************************************************)
(* Properties of the consciousness driver (specification SpecDriver).      *)
(***************************************************************************)
\* the calls of startConsciousnessLoop whose loop is alive
ActiveLoops == {s \in Starts : loopCall[s].pc \in LoopPositions}

\* C16: at most one consciousness driver loop is active at any time;
\* starting the driver while one is running starts no second loop.
C16_OneLoop == Cardinality(ActiveLoops) <= 1

C16_Witness ==
  /\ Cardinality(ActiveLoops) = 1
  /\ \E s \in Starts : loopCall[s].pc = "returned"

\* C17: after a user interaction has taken an interrupt lease of duration
\* d at time t the driver begins no new cycle before t + d, for every
\* lease, also one taken while an earlier lease has not expired.
C17_NoCycleDuringLease ==
  [][\A s \in Starts :
       (loopCall[s].pc # "cycle" /\ loopCall'[s].pc = "cycle")
         => \A i \in 1..Len(leases) : time >= leases[i]]_vars

(***************************************************************************)
(* Properties of the shutdown hooks (specifications SpecShutdown and       *)
(* SpecShutdownFair).                                                      *)
(***************************************************************************)
\* every registered hook has been invoked and has settled
AllHooksRan ==
  /\ Len(hookLog) = Len(registered)
  /\ \A i \in 1..Len(hookLog) : hookLog[i].settled # "pending"

\* C18: on a termination request the registered hooks are invoked one
\* after another in reverse registration order, each finishing before the
\* next starts, and the process exits only after all hooks have run.
C18_ReverseOrderThenExit ==
  /\ Len(hookLog) <= Len(registered)
  /\ \A i \in 1..Len(hookLog) :
       /\ hookLog[i].hook = registered[Len(registered) + 1 - i]
       /\ i < Len(hookLog) => hookLog[i].settled # "pending"
  /\ shutdownPc = "exited" => AllHooksRan

C18_Witness ==
  /\ shutdownPc = "exited"
  /\ Len(signals) = 2
  /\ Len(hookLog) = 3
  /\ hookLog[1].hook = "stopServer"
  /\ hookLog[2].hook = "closeBrowser"
  /\ hookLog[3].hook = "closeDB"

\* a hook has thrown or its promise has rejected
SomeHookFailed == \E i \in 1..Len(hookLog) : hookLog[i].settled \in HookFailures

\* C19: if a shutdown hook throws or rejects, every remaining hook is
\* still invoked and the process still exits.
C19_FailureIsolated ==
  SomeHookFailed ~> (shutdownPc = "exited" /\ AllHooksRan)

C19_Witness ==
  /\ shutdownPc = "exited"
  /\ Len(hookLog) = 3
  /\ hookLog[1].settled = "threw"
  /\ hookLog[2].settled = "rejected"
  /\ hookLog[3].settled = "returned"

(***************************************************************************)
(* Properties of the event streams (specification SpecSSE).                *)
(***************************************************************************)
\* C20: on each stream every subscriber that has subscribed and not
\* cancelled receives every message published after its subscription (taken
\* here from the moment its forwarding listener is attached), however many
\* other subscribers there are.
C20_EveryMessageDelivered ==
  \A u \in Subscribers :
    sub[u].pc = "attached"
      => sub[u].got = published[sub[u].stream] - sub[u].from

\* C21: cancelling one subscription detaches that subscriber and only that
\* one: the step in which a subscriber cancels removes all of its own
\* listeners and leaves the listeners of every other subscriber in place, so
\* that the others keep receiving what is published afterwards.
C21_CancelDetachesOnlyThatOne ==
  [][\A u \in Subscribers :
       (sub[u].pc # "cancelled" /\ sub'[u].pc = "cancelled")
         => \A st \in Streams :
              /\ \A l \in listeners'[st] : l.owner # u
              /\ {l \in listeners'[st] : l.owner # u}
                   = {l \in listeners[st] : l.owner # u}]_vars

(***************************************************************************)
(* Properties of the tool executor (specification SpecExecutor).           *)
(***************************************************************************)
\* C22: registry.execute(name, args) never throws: for a name that is not
\* registered it returns a failure Result reporting that the tool was not
\* found, and when the tool's execute raises it returns a failure Result
\* carrying the error message.  So no call of the executor ever sees an
\* exception (lastError stays empty), and every response pushed for an
\* unknown tool or a raising tool is the corresponding failure Result.
C22_RegistryNeverThrows ==
  /\ exec.lastError = "none"
  /\ \A i \in 1..Len(exec.responses) :
       LET r == exec.responses[i].response
           last == exec.tries[i][Len(exec.tries[i])].outcome
       IN /\ last = "unknown" => (~r.success /\ r.error = "Unknown tool")
          /\ last = "throws" => (~r.success /\ r.error = "err.message")

\* an unknown tool and a raising tool have both been answered
C22_Witness ==
  /\ \E i \in 1..Len(exec.responses) :
       exec.tries[i][Len(exec.tries[i])].outcome = "unknown"
  /\ \E i \in 1..Len(exec.responses) :
       exec.tries[i][Len(exec.tries[i])].outcome = "throws"

(***************************************************************************)
(* Properties of the configuration store (specification SpecConfig).       *)
(***************************************************************************)
\* the key's validation rule, read from the table of rules: a number key
\* takes a numeral within [min, max], a boolean key one of the four
\* literals, a key without a rule anything
SatisfiesRule(key, v) ==
  LET rule == VALIDATION_RULES(key) IN
    /\ rule.type = "number" =>
         (Number(v) # NaN /\ rule.min <= Number(v) /\ Number(v) <= rule.max)
    /\ rule.type = "boolean" => v \in {"true", "false", "1", "0"}

C25_DebtProportionalToElapsed ==
  \A i \in 2..Len(ledger) :
    2 * ledger[i].amount =
      -((ledger[i].created_at - ledger[i - 1].created_at) * HOURLY_DEBT)

(***************************************************************************)
(* Properties of the knowledge store (specification SpecKnowledge).        *)
(***************************************************************************)
\* C26: at every moment each row of the vector table has a parent knowledge
\* row with the same id (so a pruned knowledge row has no vector left),
\* also when a save, which awaits the embedding between its two inserts,
\* interleaves with pruning.
C26_VectorHasParent ==
  \A id \in knowledge_vec : \E k \in knowledge : k.id = id

(***************************************************************************)
(* Waiting for tokens (specification SpecBucket).                          *)
(***************************************************************************)
\* C27: acquire(k) called when k exceeds the tokens available returns only
\* after waiting at least (k - available) * interval_ms / tokens_per_interval:
\* in the step in which a suspended call returns, the time since the call
\* was made, times tokensPerInterval, is at least the deficit times
\* intervalMs.
C27_WaitsForDeficit ==
  [][\A c \in Callers :
       (rlCall[c].pc = "waiting" /\ rlCall'[c].pc = "done")
         => (clock' - rlCall[c].calledAt) * limiter.tokensPerInterval
              >= rlCall[c].needed * limiter.intervalMs]_vars

\* a call that was one token short at 2 tokens per 3 ms has returned
C27_Witness ==
  \E c \in Callers :
    /\ rlCall[c].pc = "done" /\ rlCall[c].op = "acquire"
    /\ rlCall[c].needed = 1
    /\ limiter.intervalMs = 3

(***************************************************************************)
(* Tool calls and their results in one agent run (specification Spec).     *)
(***************************************************************************)
\* C28: within a batch of several tool calls the tool_call and tool_result
\* events interleave per call in issuance order: the tool_result of the
\* i-th call is emitted before the tool_call of the (i+1)-th call, so no
\* tool_call event is followed directly by another tool_call event.
C28_ResultBeforeNextCall ==
  \A i \in 1..(Len(events) - 1) :
    events[i].type = "tool_call" => events[i + 1].type # "tool_call"

\* C29: a tool Result with success = false is treated as data.  The step
\* of the result loop that handles it emits the tool_result and changes
\* neither the Task nor the exception state: it goes on to the next result
\* and, after the last one, appends the responses to the messages and
\* reaches the stuck check, from where the loop continues with the next LLM
\* call.  The only exception in that step is a failure of the store
\* (logToolCall), which does not depend on the Result.
C29_FailureIsData ==
  [][(/\ pc = "toolResults"
      /\ ~functionResponses[idx].success
      /\ (pc' # pc \/ idx' # idx))
       => /\ events' = Append(events, Ev("tool_result", functionResponses[idx].name))
          /\ tasks' = tasks
          /\ thrown' = thrown
          /\ \/ pc' = "catch" /\ err' = "store failed"
             \/ /\ err' = err
                /\ IF idx = Len(functionResponses)
                   THEN /\ pc' = "stuckCheck"
                        /\ messages' = Append(messages, "user functionResponses")
                   ELSE pc' = "toolResults" /\ idx' = idx + 1]_vars

\* the failed first result of a batch of two has been emitted and logged,
\* the loop is at the second result and the Task still running
C29_Witness ==
  /\ pc = "toolResults" /\ idx = 2
  /\ ~functionResponses[1].success
  /\ events[Len(events)].type = "tool_result"
  /\ Len(toolCalls) = 1
  /\ tasks[taskId].status = "running"
  /\ err = "none" /\ ~thrown

(***************************************************************************)
(* Retries of the tool executor (specification SpecExecutor).              *)
(***************************************************************************)
\* C30: when executing a tool raises an exception the executor retries that
\* call up to 2 more times, waiting 2 s before the first retry and 4 s
\* before the second (at most 3 attempts per call); a Result with
\* success = false is never retried.  For every call that has been
\* answered: at most 3 attempts were made; an attempt in which the tool
\* raised was followed by another unless it was the third; an attempt in
\* which the tool returned a Result was the last; attempt k + 1 started at
\* least 2 * k seconds after attempt k.
C30_RetriesOnException ==
  \A i \in 1..Len(exec.responses) :
    LET t == exec.tries[i] IN
      /\ Len(t) <= maxRetries + 1
      /\ \A k \in 1..Len(t) :
           t[k].outcome = "throws" => (k = maxRetries + 1 \/ k < Len(t))
      /\ \A k \in 1..Len(t) :
           t[k].outcome # "throws" => k = Len(t)
      /\ \A k \in 2..Len(t) : t[k].at >= t[k - 1].at + 2 * (k - 1)

(***************************************************************************)
(* Refill of the token bucket (specification SpecBucket).                  *)
(***************************************************************************)
\* C31: refill is pro-rata over elapsed time and capped at capacity: if no
\* tokens are acquired between t0 and t, the tokens available at t equal
\* min(capacity, tokens at t0 + floor((t - t0) * tokens_per_interval /
\* interval_ms)), however many times the bucket was polled in between.
\* Here t0 is the present time of any reachable bucket, t any time up to one
\* interval later, and u the time of one poll (a refill() without an
\* acquisition) in between.
C31_RefillProRata ==
  limiter.constructed =>
    \A t \in clock..(clock + limiter.intervalMs) :
      \A u \in clock..t :
        Refill(Refill(Refill(limiter, clock), u), t).tokens =
          Min(limiter.maxTokens,
              Refill(limiter, clock).tokens
                + ((t - clock) * limiter.tokensPerInterval) \div limiter.intervalMs)

(***************************************************************************)
(* The cycle of the consciousness loop (specification SpecCycle).          *)
(***************************************************************************)
\* C32: investigation_count is reset to 0 by every cycle whose action made
\* real progress and is incremented by one by every cycle that made no
\* real progress, cycles in which no action was executed included: when
\* a cycle is over that no exception has cut short, the counter is 0 if
\* the action completed and one more than it was when the cycle began
\* otherwise.
C32_ResetOrIncrement ==
  cyc.pc = "sleeping" /\ ~cyc.failed =>
    investigationCount = IF cyc.actionCompleted THEN 0
                         ELSE cyc.startCount + 1

\* C33: the mode of a cycle is decided by investigation_count: below
\* MAX_INVESTIGATION_CYCLES the prompt is the investigate prompt and the
\* action runs on the reflection text, at or above it the prompt is the
\* force-execute prompt and the action runs on a synthesized task; the
\* prompt phase and the action mode of one cycle agree.  Stated for the
\* cycles in which no repetition or fakery is detected.
C33_PhaseAndModeAgree ==
  cyc.pc = "acting" /\ ~cyc.detected =>
    /\ cyc.isInvestigationPhase <=> cyc.startCount < MAX_INVESTIGATION_CYCLES
    /\ cyc.forceAction <=> ~cyc.isInvestigationPhase

\* C34: in a cycle where repetition or fakery is detected, the rows of the
\* autonomous session are all deleted before the reflection call, and the
\* action of that cycle runs in execute mode.
C34_DetectionClearsAndForces ==
  cyc.detected =>
    /\ cyc.pc = "reflecting" => autonomous = <<>>
    /\ cyc.pc = "acting" => cyc.forceAction

C34_Witness ==
  /\ cyc.detected
  /\ cyc.pc = "acting"
  /\ cyc.startCount = 0
  /\ cyc.forceAction

\* C35: counting the cycles of the driver from its start, the autonomous
\* conversation is trimmed to its last 12 messages in every fifth cycle and
\* in no other cycle.
C35_TrimEveryFifthCycle ==
  cyc.pc = "sleeping" => (cyc.trimmed <=> cyc.n % 5 = 0)

C37_RowRecordsItsOwnCall ==
  [][pc = "toolResults" /\ Len(toolCalls') = Len(toolCalls) + 1 =>
       toolCalls'[Len(toolCalls')].input =
         JSONStringify(response.functionCalls[idx].args)]_vars

(***************************************************************************)
(* The history a run loads (specification SpecHistory).                    *)
(***************************************************************************)
\* C38: the conversation history loaded at the start of a run consists of
\* the session's most recent rows, up to the load limit, in creation
\* order, so the user and model turns saved by the session's previous
\* completed run are part of it, however long the history has grown.
C38_LoadsMostRecentRows ==
  run.pc = "running" =>
    LET n == Len(sessionRows)
        k == Min(n, 100)
    IN /\ run.history = SubSeq(sessionRows, n - k + 1, n)
       /\ n > 0 => \E i \in 1..Len(run.history) :
                     run.history[i] = sessionRows[n]

(***************************************************************************)
(* The count of active chats (specification SpecChat).                     *)
(***************************************************************************)
\* C39: the active chat count always equals the number of chat streams in
\* progress: it is incremented once when a chat is accepted and decremented
\* once when that chat's stream ends (completion, agent error or client
\* disconnect), so it never goes negative and is 0 when no chat is running.
C39_CountEqualsStreams ==
  /\ activeChatCount = Cardinality({r \in Requests : req[r].pc = "streaming"})
  /\ activeChatCount >= 0

C39_Witness ==
  /\ activeChatCount = 1
  /\ \E r \in Requests : req[r].pc = "closed" /\ req[r].outcome = "agent error"
  /\ \E r \in Requests :
       req[r].pc = "closed" /\ req[r].outcome = "client disconnected"
  /\ \E r \in Requests : req[r].pc = "streaming"

(***************************************************************************)
(* A repeated termination request (specification SpecShutdown).            *)
(***************************************************************************)
\* C40: a second termination request received while shutdown is in
\* progress has no effect: each registered hook is invoked at most once,
\* and is_shutting_down() is true before the first hook runs and never
\* returns to false.
C40_RepeatedSignalHasNoEffect ==
  [][/\ isShuttingDown => isShuttingDown'
     /\ hookLog' # <<>> => isShuttingDown'
     /\ \A i, j \in 1..Len(hookLog') :
          i # j => hookLog'[i].hook # hookLog'[j].hook
     /\ isShuttingDown /\ signals' # signals =>
          UNCHANGED <<handlers, hookLog, hookIdx, shutdownPc, isShuttingDown>>
    ]_vars

C40_Witness ==
  /\ Len(signals) = 2
  /\ shutdownPc = "exited"
  /\ Len(hookLog) = 3

====
